---- MODULE Spec2Model ----
(***************************************************************************)
(* Hybrid retrieval orchestration of ai-deno-search: the SearchContext     *)
(* orchestrator, the embedding providers and the Milvus REST vector store, *)
(* as asynchronous tasks on one JavaScript event loop.  A step of a task   *)
(* is the code that runs between two awaits of a remote request: it        *)
(* consumes the answer of the request in flight and runs on to the next    *)
(* request (or to the end of the call).                                    *)
(***************************************************************************)
EXTENDS Integers, Sequences, FiniteSets, TLC

VARIABLES
    remote,    \* the remote vector store: collections, load states, rows
    provider,  \* the embedding provider instance (config and dimension cache)
    context,   \* the SearchContext instance (name, hybridMode)
    task,      \* the asynchronous invocations: position, locals, last result
    hist       \* history: requests issued per collection / provider

vars == <<remote, provider, context, task, hist>>

(***************************** bounds **************************************)
NumTasks == 2
MaxCalls == 2
MaxRows == 2

Tasks == 1..NumTasks

(************************* collection naming *******************************)
ContextNames == {"proj"}

getCollectionName(name, hybridMode) ==
    (IF hybridMode THEN "hybrid_code_chunks" ELSE "code_chunks") \o "_" \o name

Collections == {getCollectionName(n, h) : n \in ContextNames, h \in BOOLEAN}

(************************* metadata blobs **********************************)
\* A metadata map is a function from some keys to strings; a blob is the
\* sequence of JSON tokens of its serialisation.
Tok(t, v) == [t |-> t, v |-> v]
LBRACE == Tok("{", "")
RBRACE == Tok("}", "")
COLON  == Tok(":", "")
COMMA  == Tok(",", "")
NULLT  == Tok("null", "")
Str(s) == Tok("str", s)

KeyOrder == <<"language", "kind">>

EmptyMap == [k \in {} |-> ""]

RECURSIVE StringifyPairs(_, _, _)
StringifyPairs(m, i, first) ==
    IF i > Len(KeyOrder) THEN <<>>
    ELSE IF KeyOrder[i] \in DOMAIN m
         THEN (IF first THEN <<>> ELSE <<COMMA>>)
              \o <<Str(KeyOrder[i]), COLON, Str(m[KeyOrder[i]])>>
              \o StringifyPairs(m, i + 1, FALSE)
         ELSE StringifyPairs(m, i + 1, first)

\* variant: every map is written as the empty object
JSONstringifyEmpty(m) == <<LBRACE, RBRACE>>

\* JSON.stringify of a metadata map
JSONstringify(m) == <<LBRACE>> \o StringifyPairs(m, 1, TRUE) \o <<RBRACE>>

ParseFail == [ok |-> FALSE, null |-> FALSE, map |-> EmptyMap]

RECURSIVE ParsePairs(_, _, _)
\* the members of an object from token i on, after `acc`; toks ends with "}"
ParsePairs(toks, i, acc) ==
    IF i + 3 > Len(toks) THEN ParseFail
    ELSE IF toks[i].t # "str" \/ toks[i + 1] # COLON \/ toks[i + 2].t # "str"
         THEN ParseFail
         ELSE LET acc2 == [k \in DOMAIN acc \cup {toks[i].v} |->
                             IF k = toks[i].v THEN toks[i + 2].v ELSE acc[k]]
              IN  IF toks[i + 3] = RBRACE
                  THEN IF i + 3 = Len(toks)
                       THEN [ok |-> TRUE, null |-> FALSE, map |-> acc2]
                       ELSE ParseFail
                  ELSE IF toks[i + 3] = COMMA
                       THEN ParsePairs(toks, i + 4, acc2)
                       ELSE ParseFail

\* JSON.parse of a blob: throws (ok = FALSE), or yields null or a map
JSONparse(toks) ==
    IF toks = <<NULLT>> THEN [ok |-> TRUE, null |-> TRUE, map |-> EmptyMap]
    ELSE IF Len(toks) < 2 \/ toks[1] # LBRACE THEN ParseFail
    ELSE IF toks = <<LBRACE, RBRACE>>
         THEN [ok |-> TRUE, null |-> FALSE, map |-> EmptyMap]
         ELSE ParsePairs(toks, 2, EmptyMap)

\* item.metadata || "{}" : a missing or empty blob reads as "{}"
OrEmptyObject(blob) == IF blob = <<>> THEN <<LBRACE, RBRACE>> ELSE blob

Python == [k \in {"language"} |-> "python"]
PythonFunction ==
    [k \in {"language", "kind"} |->
        IF k = "language" THEN "python" ELSE "function"]

\* the metadata maps documents are inserted with
MetadataMaps == {EmptyMap, Python, PythonFunction}
Truncated == <<LBRACE, Str("language"), COLON>>

\* rows as the store holds them
\* distance: the similarity the store reports for the row, in thousandths
Row(id, content, blob, relativePath, startLine, endLine, distance) ==
    [id |-> id, content |-> content, metadata |-> blob,
     relativePath |-> relativePath, startLine |-> startLine,
     endLine |-> endLine, distance |-> distance]
GoodRow == Row("a", "def f", JSONstringify(Python), "src/f.py", 1, 3, 870)
BareRow == Row("b", "fn g", <<>>, "src/g.rs", 0, 0, 0)
BadRow  == Row("c", "let h", Truncated, "src/h.js", 7, 9, 410)

\* the contents a collection may hold when the search path first sees it
RowCatalogue == {<<GoodRow, BareRow>>, <<GoodRow, BadRow>>}

(************************* wire responses *********************************)
\* What fetch and the store can answer (src MilvusRestResponse: code, data,
\* message).  net = "reject": fetch rejects (network, timeout); "http": a
\* non-2xx status; "ok": a JSON envelope.
Wire(net, code, hasData, message) ==
    [net |-> net, code |-> code, hasData |-> hasData, message |-> message]

TransportFailures ==
    { Wire("reject", 0, FALSE, "error sending request"),
      Wire("http", 0, FALSE, "503: Service Unavailable") }

SuccessEnvelopes == { Wire("ok", c, d, "") : c \in {0, 200}, d \in BOOLEAN }

StoreErrors(exists) ==
    IF exists THEN { Wire("ok", 65535, FALSE, "") }
    ELSE { Wire("ok", 100, FALSE, "collection not found") }

\* the error texts the store gives when it refuses collections/create
LimitText == "exceeded the limit number of collections[limit=2]"
LimitTextCapitalised == "Exceeded the limit number of Collections"
QuotaText == "number of collections is limited"
CreateErrors ==
    { Wire("ok", 65535, FALSE, m) :
        m \in {LimitText, LimitTextCapitalised, QuotaText, ""} }

\* variant: every index is built with the dense parameters
IndexParamsAllDense(fieldName) ==
    [fieldName |-> fieldName, indexName |-> "vector_index",
     metricType |-> "COSINE", index_type |-> "AUTOINDEX"]

\* indexParams of createIndex and createHybridIndexes
IndexParams(fieldName) ==
    IF fieldName = "vector"
    THEN [fieldName |-> "vector", indexName |-> "vector_index",
          metricType |-> "COSINE", index_type |-> "AUTOINDEX"]
    ELSE [fieldName |-> "sparse_vector", indexName |-> "sparse_vector_index",
          metricType |-> "BM25", index_type |-> "SPARSE_INVERTED_INDEX"]

\* the indexes create gives a collection: createCollection's, or
\* createHybridCollection's
CollectionIndexes(op) ==
    IF op = "createHybridCollection"
    THEN {IndexParams("vector"), IndexParams("sparse_vector")}
    ELSE {IndexParams("vector")}

\* the indexes of a collection the indexer created under the name c
IndexesOf(c) ==
    IF \E n \in ContextNames : c = getCollectionName(n, TRUE)
    THEN CollectionIndexes("createHybridCollection")
    ELSE CollectionIndexes("createCollection")

\* the answers the remote store can give to a request on collection c
Answers(R, endpoint, c) ==
    TransportFailures \cup
    (IF endpoint = "collections/has"
     THEN SuccessEnvelopes \cup StoreErrors(TRUE)
     ELSE IF endpoint = "collections/create"
     THEN {Wire("ok", 0, FALSE, ""), Wire("ok", 200, FALSE, "")}
          \cup CreateErrors
     ELSE IF endpoint = "collections/list"
     THEN SuccessEnvelopes \cup StoreErrors(TRUE)
     ELSE IF ~R.exists[c] THEN StoreErrors(FALSE)
     ELSE IF endpoint = "entities/insert" /\ Len(R.rows[c]) >= MaxRows
          THEN StoreErrors(TRUE)
          ELSE SuccessEnvelopes \cup StoreErrors(TRUE))

\* makeRequest's success test on the envelope code
IsSuccessCode(code) == code = 0 \/ code = 200

\* makeRequest after the await of fetch: the error it throws, or none
makeRequestOutcome(resp) ==
    IF resp.net = "reject" THEN [threw |-> TRUE, error |-> resp.message]
    ELSE IF resp.net = "http"
         THEN [threw |-> TRUE, error |-> "HTTP " \o resp.message]
    ELSE IF ~IsSuccessCode(resp.code)
         THEN [threw |-> TRUE,
               error |-> "Milvus API error: " \o
                         (IF resp.message = "" THEN "Unknown error"
                          ELSE resp.message)]
         ELSE [threw |-> FALSE, error |-> ""]

(***************************** results ************************************)
Result(kind, error, b, n, l) ==
    [kind |-> kind, error |-> error, bool |-> b, num |-> n, list |-> l]
NoResult == Result("none", "", FALSE, 0, <<>>)
Returned(b, l) == Result("return", "", b, 0, l)
ReturnedNum(n) == Result("return", "", FALSE, n, <<>>)
Thrown(e) == Result("throw", e, FALSE, 0, <<>>)

(****************************** tasks *************************************)
\* call:   the public operation the task runs or ran last ("none": never used)
\* result: how that call ended (kind "none" while it runs)
\* at:     within semanticSearch, the collaborator call being awaited
\* op:     the VectorStore / provider operation being executed
\* wait:   the remote request in flight
\* hasCollection, loadState, reqModel, docs, query, fieldName: locals of
\*         the code
\* failed, raised, served: what happened in the call (which collaborator
\*         calls raised, the last error raised, the rows the store served)
\* envelope: the answer of the store on which the call ended
NoEnvelope == Wire("none", 0, FALSE, "")

\* an optional value: <<>> when undefined, <<v>> when given
Undefined == <<>>
Some(v) == <<v>>

\* options: the options object a search operation was called with
\* payload: the filter fields of the request body it sent
NoOptions ==
    [threshold |-> Undefined, filterExpr |-> Undefined, topK |-> Undefined,
     limit |-> Undefined, rerank |-> Undefined]
NoPayload == [filter |-> Undefined, search |-> <<>>]

IdleTask ==
    [call |-> "none", at |-> "none", op |-> "none", wait |-> "none",
     threshold |-> Undefined, filterExpr |-> Undefined, topK |-> Undefined,
     options |-> NoOptions, payload |-> NoPayload,
     authorization |-> Undefined, called |-> <<>>, client |-> Undefined,
     coll |-> "none", loadState |-> "none", reqModel |-> "none",
     docs |-> <<>>, query |-> "", hasCollection |-> "none",
     fieldName |-> "none",
     result |-> NoResult, failed |-> {}, raised |-> "", served |-> <<>>,
     envelope |-> NoEnvelope]

World ==
    [remote |-> remote, provider |-> provider, task |-> task, hist |-> hist]

Commit(W) ==
    /\ remote' = W.remote
    /\ provider' = W.provider
    /\ task' = W.task
    /\ hist' = W.hist
    /\ UNCHANGED context

\* the public call of task t ends with result res
FinishCall(W, t, res) ==
    [W EXCEPT !.task[t] =
        [@ EXCEPT !.at = "none", !.op = "none",
                  !.wait = "none", !.coll = "none", !.loadState = "none",
                  !.reqModel = "none", !.docs = <<>>, !.query = "",
                  !.fieldName = "none",
                  !.filterExpr = Undefined, !.topK = Undefined,
                  !.options = NoOptions,
                  !.payload = NoPayload, !.authorization = Undefined,
                  !.result = res]]

\* a public call of task t begins
Begin(W, t, call) ==
    [W EXCEPT !.hist.calls = @ + 1,
              !.task[t] =
        [@ EXCEPT !.call = call, !.result = NoResult,
                  !.threshold = Undefined, !.called = <<>>,
                  !.client = Undefined,
                  !.hasCollection = "none", !.failed = {}, !.raised = "",
                  !.served = <<>>, !.envelope = NoEnvelope]]

\* if (this.config.token) headers["Authorization"] = `Bearer ${token}`
AuthorizationHeader(token) ==
    IF token # Undefined /\ token[1] # ""
    THEN Some("Bearer " \o token[1]) ELSE Undefined

\* makeRequest up to its await of fetch: the request is on the wire, with
\* the Authorization header in `authorization`
makeRequest(W, t, endpoint) ==
    [W EXCEPT !.task[t].wait = endpoint, !.task[t].envelope = NoEnvelope,
              !.task[t].authorization = AuthorizationHeader(context.token)]

\* fetch settles with resp for task t
Received(W, t, resp) ==
    [W EXCEPT !.task[t].envelope = resp]

(************************** VectorStore ***********************************)
CreateOps == {"createCollection", "createHybridCollection"}

LoadedOps == {"insert", "insertHybrid", "search", "hybridSearch", "query",
              "delete"}

\* variant: the pre-check query of the hybrid path is sent as a delete
EndpointPreCheckDeletes(op) ==
    CASE op = "insert" -> "entities/insert"
      [] op = "insertHybrid" -> "entities/insert"
      [] op = "search" -> "entities/search"
      [] op = "hybridSearch" -> "entities/hybrid_search"
      [] op = "query" -> "entities/delete"
      [] op = "delete" -> "entities/delete"
      [] op = "hasCollection" -> "collections/has"

Endpoint(op) ==
    CASE op = "insert" -> "entities/insert"
      [] op = "insertHybrid" -> "entities/insert"
      [] op = "search" -> "entities/search"
      [] op = "hybridSearch" -> "entities/hybrid_search"
      [] op = "query" -> "entities/query"
      [] op = "delete" -> "entities/delete"
      [] op = "hasCollection" -> "collections/has"

InEnsureLoaded(tk, c) ==
    /\ tk.coll = c
    /\ tk.wait \in {"collections/get_load_state", "collections/load"}

\* ensureLoaded up to its first await: get_load_state is on the wire
ensureLoaded(W, t, c) ==
    LET others == \E u \in Tasks \ {t} : InEnsureLoaded(W.task[u], c)
        W1 == [W EXCEPT !.hist.ens[c].started = @ + 1,
                        !.hist.ens[c].overlap = @ \/ others]
    IN  makeRequest(W1, t, "collections/get_load_state")

\* variant: ensureLoaded loads whatever the store reported
NeedsLoadAlways(loadState) == TRUE

\* variant: ensureLoaded takes the collection to be loaded
NeedsLoadNever(loadState) == FALSE

\* ensureLoaded's test after get_load_state answered
NeedsLoad(loadState) == loadState # "LoadStateLoaded"

\* loadCollection up to its await
loadCollection(W, t, c) ==
    makeRequest([W EXCEPT !.hist.ens[c].loads = @ + 1], t, "collections/load")

\* a VectorStore operation of task t starts (ensureInitialized has resolved)
StartStoreOp(W, t, op, c, docs) ==
    LET W1 == [W EXCEPT !.task[t].op = op, !.task[t].coll = c,
                        !.task[t].called = Append(@, op),
                        !.task[t].docs = docs, !.task[t].raised = ""]
    IN  IF op \in LoadedOps THEN ensureLoaded(W1, t, c)
        ELSE makeRequest(W1, t, Endpoint(op))

\* String.prototype.trim on the filter strings of the model
trim(str) ==
    CASE str = "  " -> ""
      [] str = " language == 'python' " -> "language == 'python'"
      [] OTHER -> str

\* variant: the filter is sent trimmed
RequestFilterTrimmed(options) ==
    IF options.filterExpr # Undefined /\ options.filterExpr[1] # ""
       /\ trim(options.filterExpr[1]) # ""
    THEN Some(trim(options.filterExpr[1])) ELSE Undefined

\* if (options?.filterExpr && options.filterExpr.trim().length > 0)
\*     request.filter = options.filterExpr
RequestFilter(options) ==
    IF options.filterExpr # Undefined /\ options.filterExpr[1] # ""
       /\ trim(options.filterExpr[1]) # ""
    THEN options.filterExpr ELSE Undefined

\* an optional number || fallback
OrDefault(value, fallback) ==
    IF value = Undefined \/ value[1] = 0 THEN fallback ELSE value[1]

\* variant: the rerank strategy is the one the caller passed
RerankFromOptions(options) ==
    IF options.rerank # Undefined THEN options.rerank[1]
    ELSE [strategy |-> "rrf", params |-> [k |-> 100]]

\* hybridSearch: const rerank_strategy = { strategy: "rrf", params: {k: 100} }
RerankStrategy(options) == [strategy |-> "rrf", params |-> [k |-> 100]]

\* search: options?.topK || 10; hybridSearch:
\* options?.limit || searchRequests[0]?.limit || 10
RequestLimit(op, searchRequests, options) ==
    IF op = "search" THEN OrDefault(options.topK, 10)
    ELSE OrDefault(options.limit,
             OrDefault(IF Len(searchRequests) > 0
                       THEN Some(searchRequests[1].limit) ELSE Undefined,
                       10))

\* search_param_1 / search_param_2 of hybridSearch: the data is wrapped in a
\* list, the metric is fixed by the position of the block
SearchParam(i, searchRequest, options) ==
    [data |-> <<searchRequest.data>>,
     annsField |-> searchRequest.anns_field,
     limit |-> searchRequest.limit,
     metricType |-> IF i = 1 THEN "COSINE" ELSE "BM25",
     filter |-> RequestFilter(options)]

\* the body of entities/search (searchRequest) and of entities/hybrid_search
\* (hybridSearchRequest), built from the arguments of the operation
RequestPayload(op, searchRequests, options) ==
    CASE op = "search" ->
             [filter |-> RequestFilter(options), search |-> <<>>,
              data |-> <<searchRequests[1].data>>, annsField |-> "vector",
              limit |-> RequestLimit(op, searchRequests, options)]
      [] op = "hybridSearch" ->
             [filter |-> Undefined,
              search |-> <<SearchParam(1, searchRequests[1], options),
                           SearchParam(2, searchRequests[2], options)>>,
              rerank |-> RerankStrategy(options),
              limit |-> RequestLimit(op, searchRequests, options)]
      [] OTHER -> NoPayload

\* the entities/* request of the operation, sent once ensureLoaded returned
SendEntityRequest(W, t) ==
    LET c == W.task[t].coll
        W1 == [W EXCEPT !.task[t].payload =
                  RequestPayload(W.task[t].op, W.task[t].docs,
                                 W.task[t].options)]
    IN  makeRequest(W1, t, Endpoint(W.task[t].op))

\* ensureLoaded failed: it rethrows, and so does the operation
EnsureLoadedThrows(W, t) ==
    LET c == W.task[t].coll
    IN  [W EXCEPT !.hist.ens[c].clean = FALSE]

\* metadata of a row in search: parse failures are caught and yield {}
searchMetadata(blob) ==
    LET p == JSONparse(OrEmptyObject(blob))
    IN  IF p.ok THEN [threw |-> FALSE, null |-> p.null, map |-> p.map]
        ELSE [threw |-> FALSE, null |-> FALSE, map |-> EmptyMap]

\* metadata of a row in hybridSearch: JSON.parse is not guarded
hybridSearchMetadata(blob) ==
    LET p == JSONparse(OrEmptyObject(blob))
    IN  [threw |-> ~p.ok, null |-> p.null, map |-> p.map]

\* value || fallback on strings and on numbers
OrString(value, fallback) == IF value = "" THEN fallback ELSE value
OrNumber(value, fallback) == IF value = 0 THEN fallback ELSE value

\* score of a result: item.distance || 0 in search,
\* result.score || result.distance || 0 in hybridSearch
Score(op, row) ==
    IF op = "search" THEN OrNumber(row.distance, 0)
    ELSE OrNumber(OrNumber(IF "score" \in DOMAIN row THEN row.score ELSE 0,
                           row.distance), 0)

Doc(op, row, md) ==
    [document |-> [id |-> OrString(row.id, ""),
                   content |-> OrString(row.content, ""),
                   relativePath |-> OrString(row.relativePath, ""),
                   startLine |-> OrNumber(row.startLine, 0),
                   endLine |-> OrNumber(row.endLine, 0),
                   metadata |-> [null |-> md.null, map |-> md.map]],
     score |-> Score(op, row)]

\* results.map(...) of search / hybridSearch over the rows of the answer
MapRows(op, rows) ==
    LET md(i) == IF op = "search" THEN searchMetadata(rows[i].metadata)
                 ELSE hybridSearchMetadata(rows[i].metadata)
    IN  IF \E i \in 1..Len(rows) : md(i).threw
        THEN Thrown("SyntaxError: Unexpected end of JSON input")
        ELSE Returned(FALSE, [i \in 1..Len(rows) |-> Doc(op, rows[i], md(i))])

\* the second check of the envelope code in query, insertHybrid, hybridSearch
CodeRecheck(op, resp) ==
    IF op \in {"query", "insertHybrid", "hybridSearch"} /\ resp.code # 0
    THEN (CASE op = "query" -> "Failed to query Milvus: "
            [] op = "insertHybrid" -> "Insert failed: "
            [] op = "hybridSearch" -> "Hybrid search failed: ")
         \o (IF resp.message = "" THEN "Unknown error" ELSE resp.message)
    ELSE ""

\* the result of an operation from a successful answer to its own request
StoreOpResult(R, op, c, resp) ==
    LET data == IF resp.hasData THEN R.rows[c] ELSE <<>>
    IN  IF CodeRecheck(op, resp) # "" THEN Thrown(CodeRecheck(op, resp))
        ELSE CASE op = "hasCollection" ->
                      Returned(resp.hasData /\ R.exists[c], <<>>)
               [] op \in {"search", "hybridSearch"} -> MapRows(op, data)
               [] op = "query" ->
                      Returned(FALSE, [i \in 1..Len(data) |->
                                          [id |-> data[i].id]])
               [] OTHER -> Returned(FALSE, <<>>)

\* the row of an inserted document: metadata: JSON.stringify(doc.metadata);
\* `inserted` remembers the map the document was inserted with
InsertedRow(doc) ==
    [id |-> doc.id, content |-> doc.content,
     metadata |-> JSONstringify(doc.metadata),
     relativePath |-> doc.relativePath, startLine |-> doc.startLine,
     endLine |-> doc.endLine, distance |-> 500, inserted |-> doc.metadata]

\* what a successful request changes in the remote store
StoreEffect(R, endpoint, c, docs) ==
    CASE endpoint = "collections/load" ->
             [R EXCEPT !.loadState[c] = "LoadStateLoaded"]
      [] endpoint = "entities/insert" ->
             [R EXCEPT !.rows[c] = @ \o [i \in 1..Len(docs) |->
                 InsertedRow(docs[i])]]
      [] endpoint = "entities/delete" ->
             [R EXCEPT !.rows[c] = SelectSeq(@, LAMBDA r :
                 \A i \in 1..Len(docs) : docs[i].id # r.id)]
      [] endpoint = "collections/create" ->
             IF R.exists[c] THEN R ELSE [R EXCEPT !.exists[c] = TRUE]
      [] endpoint = "indexes/create" ->
             [R EXCEPT !.indexes[c] = @ \cup {docs[1]}]
      [] endpoint = "collections/drop" ->
             [R EXCEPT !.exists[c] = FALSE, !.rows[c] = <<>>,
                       !.indexes[c] = {},
                       !.loadState[c] = "LoadStateNotLoad"]
      [] OTHER -> R

(*********************** embedding providers *******************************)
ProviderKinds == {"Ollama", "OpenAI", "VoyageAI", "Gemini"}

OllamaDefaultDimension == 768
OpenAIDefaultDimension == 1536
VoyageDefaultDimension == 1024
GeminiDefaultDimension == 3072

\* getSupportedModels(): the static dimension tables (0: not in the table)
SupportedDimension(kind, model) ==
    CASE kind = "OpenAI" /\ model = "text-embedding-3-small" -> 1536
      [] kind = "OpenAI" /\ model = "text-embedding-3-large" -> 3072
      [] kind = "VoyageAI" /\ model = "voyage-code-3" -> 1024
      [] kind = "VoyageAI" /\ model = "voyage-3-lite" -> 512
      [] kind = "Gemini" /\ model = "gemini-embedding-001" -> 3072
      [] OTHER -> 0

Models(kind) ==
    CASE kind = "Ollama" -> {"nomic-embed-text", "all-minilm"}
      [] kind = "OpenAI" -> {"text-embedding-3-small",
                             "text-embedding-3-large", "custom-embed"}
      [] kind = "VoyageAI" -> {"voyage-code-3", "voyage-3-lite"}
      [] kind = "Gemini" -> {"gemini-embedding-001"}

\* the length of the vectors the remote embedding service returns
RemoteDimension(P, model) ==
    CASE P.kind = "Ollama" -> (IF model = "nomic-embed-text" THEN 768 ELSE 384)
      [] P.kind = "OpenAI" -> (IF SupportedDimension("OpenAI", model) # 0
                               THEN SupportedDimension("OpenAI", model)
                               ELSE 2048)
      [] P.kind = "VoyageAI" -> (IF model = "voyage-3-lite" THEN 512 ELSE 1024)
      [] P.kind = "Gemini" -> P.dimension

\* the provider instance after its constructor
\* private clientPromise: Promise<any> | null = null
\* state: null, or the state of the promise; client: the GoogleGenAI instance
\* it was fulfilled with; error: the reason it was rejected with
NoClient == [state |-> "null", client |-> 0, error |-> ""]

\* constructions counts the runs of the function that builds the client
NewProvider(kind, model, configDimension) ==
    [kind |-> kind, model |-> model, configDimension |-> configDimension,
     dimension |->
        CASE kind = "Ollama" -> (IF configDimension # 0 THEN configDimension
                                 ELSE OllamaDefaultDimension)
          [] kind = "OpenAI" -> OpenAIDefaultDimension
          [] kind = "VoyageAI" ->
                 (IF SupportedDimension(kind, model) # 0
                  THEN SupportedDimension(kind, model)
                  ELSE VoyageDefaultDimension)
          [] kind = "Gemini" -> GeminiDefaultDimension,
     dimensionDetected |-> (kind = "Ollama" /\ configDimension # 0),
     measuredFor |-> IF kind = "Ollama" /\ configDimension # 0 THEN "config"
                     ELSE "none",
     clientPromise |-> NoClient, constructions |-> 0]

\* the answers of the remote embedding service
EmbedAnswers == {[kind |-> "ok", message |-> ""],
                 [kind |-> "reject", message |-> "fetch failed"],
                 [kind |-> "malformed", message |-> ""]}

IsStatic(P) ==
    \/ P.kind \in {"VoyageAI", "Gemini"}
    \/ P.kind = "OpenAI" /\ SupportedDimension("OpenAI", P.model) # 0

\* embed / embedBatch: whether the call resolves the dimension by a probe
EmbedProbes(P) ==
    CASE P.kind = "Ollama" -> ~P.dimensionDetected /\ P.configDimension = 0
      [] P.kind = "OpenAI" -> SupportedDimension("OpenAI", P.model) = 0
      [] OTHER -> FALSE

\* detectDimension up to its await: the test embedding is on the wire
detectDimension(W, t) ==
    makeRequest([W EXCEPT !.task[t].reqModel = W.provider.model,
                          !.hist.probes = @ + 1],
                t, "probe")

\* the embedding request of embed / embedBatch is on the wire
sendEmbeddings(W, t, model) ==
    makeRequest([W EXCEPT !.task[t].reqModel = model], t, "embeddings")

\* variant: the client is built again as long as none has been obtained
getClientUnguarded(W) ==
    IF W.provider.clientPromise.state # "fulfilled"
    THEN [W EXCEPT !.provider.clientPromise =
                      [state |-> "pending", client |-> 0, error |-> ""],
                   !.provider.constructions = @ + 1]
    ELSE W

\* GeminiEmbedding._getClient: if (!this.clientPromise) the construction
\* starts and its promise is stored, before anything is awaited
getClientPromise(W) ==
    IF W.provider.clientPromise.state = "null"
    THEN [W EXCEPT !.provider.clientPromise =
                      [state |-> "pending", client |-> 0, error |-> ""],
                   !.provider.constructions = @ + 1]
    ELSE W

\* const client = await this._getClient()
awaitClient(W, t) ==
    [getClientPromise(W) EXCEPT !.task[t].wait = "client"]

\* embed / embedBatch up to the first await
embedStart(W, t, op, texts) ==
    LET P == W.provider
        table == SupportedDimension(P.kind, P.model)
        P1 == IF P.kind = "OpenAI" /\ table # 0 /\ P.dimension # table
              THEN [P EXCEPT !.dimension = table, !.measuredFor = "none"]
              ELSE P
        W1 == [W EXCEPT !.provider = P1, !.task[t].op = op,
                        !.task[t].called = Append(@, op),
                        !.task[t].docs = texts, !.task[t].reqModel = P.model,
                        !.task[t].raised = ""]
    IN  IF P.kind = "Gemini" THEN awaitClient(W1, t)
        ELSE IF EmbedProbes(P) THEN detectDimension(W1, t)
        ELSE sendEmbeddings(W1, t, P.model)

\* the cache once a probe started by embed / embedBatch / setModel answered
StoreProbedDimension(P, dim, model) ==
    [P EXCEPT !.dimension = dim,
              !.dimensionDetected = (P.kind = "Ollama"),
              !.measuredFor = model]

\* the message detectDimension throws when its request fails
ProbeError(P, model, ans) ==
    LET msg == IF ans.kind = "malformed"
               THEN (IF P.kind = "Ollama"
                     THEN "Ollama API returned invalid response"
                     ELSE "Cannot read properties of undefined")
               ELSE ans.message
    IN  IF P.kind = "Ollama"
        THEN "Failed to detect Ollama embedding dimension: " \o msg
        ELSE "Failed to detect dimension for model " \o model \o ": " \o msg

\* the error embed / embedBatch raise when the embedding request fails
EmbedError(P, op, ans) ==
    LET batch == op = "embedBatch" IN
    CASE P.kind = "Ollama" ->
             (IF ans.kind = "malformed"
              THEN (IF batch THEN "Ollama API returned invalid batch response"
                    ELSE "Ollama API returned invalid response")
              ELSE ans.message)
      [] P.kind = "OpenAI" ->
             (IF batch THEN "Failed to generate OpenAI batch embeddings: "
              ELSE "Failed to generate OpenAI embedding: ")
             \o (IF ans.kind = "malformed"
                 THEN "Cannot read properties of undefined" ELSE ans.message)
      [] P.kind = "VoyageAI" ->
             (IF ans.kind = "malformed"
              THEN "VoyageAI API returned invalid response" ELSE ans.message)
      [] P.kind = "Gemini" ->
             (IF batch THEN "Gemini batch embedding failed: "
              ELSE "Gemini embedding failed: ")
             \o (IF ans.kind = "malformed"
                 THEN "Gemini API returned invalid response" ELSE ans.message)

\* the dimension embed / embedBatch report beside a vector of length n
ReportedDimension(P, n) ==
    IF P.kind \in {"Ollama", "VoyageAI"} THEN P.dimension ELSE n

\* preprocessText: the input cut to the provider's input budget
preprocessText(text) ==
    IF text = "oversized" THEN "oversiz" ELSE text

preprocessTexts(texts) ==
    [i \in 1..Len(texts) |-> preprocessText(texts[i])]

\* the embeddings in a successful answer of the remote model: one vector of
\* n numbers for each input of the request, in the order of the inputs
RemoteEmbeddings(inputs, n) ==
    [i \in 1..Len(inputs) |-> [len |-> n, text |-> inputs[i]]]

\* variant: the answer is walked from its end
EmbeddingsReversed(P, embeddings) ==
    [i \in 1..Len(embeddings) |->
        [vector |-> embeddings[Len(embeddings) + 1 - i],
         dimension |->
            ReportedDimension(P, embeddings[Len(embeddings) + 1 - i].len)]]

\* response.embeddings.map(...) / response.data.map(...): the
\* EmbeddingVector list built from a successful answer
Embeddings(P, embeddings) ==
    [i \in 1..Len(embeddings) |->
        [vector |-> embeddings[i],
         dimension |-> ReportedDimension(P, embeddings[i].len)]]

(*************************** SearchContext ********************************)
\* variant: the language of the metadata is not read
LanguageAlwaysUnknown(md) == "unknown"

\* language: String(result.document.metadata.language || "unknown")
Language(md) ==
    IF "language" \in DOMAIN md.map /\ md.map["language"] # ""
    THEN md.map["language"] ELSE "unknown"

\* searchResults.map(...) of semanticSearch; reading .language of a null
\* metadata throws
ToSemanticResults(list) ==
    IF \E i \in 1..Len(list) : list[i].document.metadata.null
    THEN Thrown("TypeError: Cannot read properties of null")
    ELSE Returned(FALSE, [i \in 1..Len(list) |->
             [content |-> list[i].document.content,
              relativePath |-> list[i].document.relativePath,
              startLine |-> list[i].document.startLine,
              endLine |-> list[i].document.endLine,
              language |-> Language(list[i].document.metadata),
              score |-> list[i].score]])

\* semanticSearch / hasIndex up to the first await: hasCollection is called
semanticSearch(W, t, query, topK, threshold, filterExpr) ==
    LET c == getCollectionName(context.name, context.hybridMode)
        W1 == [W EXCEPT !.task[t].at = "hasCollection",
                        !.task[t].query = query,
                        !.task[t].topK = Some(topK),
                        !.task[t].threshold = Some(threshold),
                        !.task[t].filterExpr = filterExpr]
    IN  StartStoreOp(W1, t, "hasCollection", c, <<>>)

\* variant: the query is kept on the instance, where the call that started
\* last overwrites it
CallEmbedSharedQuery(W, t) ==
    LET last == CHOOSE u \in Tasks : W.task[u].query # ""
                   /\ \A v \in Tasks : W.task[v].query # "" => u >= v
    IN  embedStart([W EXCEPT !.task[t].at = "embed"], t, "embed",
                   <<W.task[last].query>>)

\* semanticSearch calls embedding.embed(query)
CallEmbed(W, t) ==
    embedStart([W EXCEPT !.task[t].at = "embed"], t, "embed",
               <<W.task[t].query>>)

\* variant: the existence check is skipped
CollectionAbsentUnchecked(res) == FALSE

\* if (!hasCollection)
CollectionAbsent(res) == ~res.bool

\* variant: a failed existence check counts as an absent collection
PropagatesUnlessExistenceCheck(at, res) ==
    res.kind = "throw" /\ at \notin {"query", "hasCollection"}

\* whether a failure of the collaborator call `at` leaves semanticSearch: the
\* pre-check query is wrapped in try / catch, nothing else is
Propagates(at, res) == res.kind = "throw" /\ at # "query"

\* semanticSearch resumes after hasCollection, query, hybridSearch or search
AfterStoreOp(W, t, res) ==
    LET c == getCollectionName(context.name, context.hybridMode)
        at == W.task[t].at
        W1 == [W EXCEPT !.task[t].hasCollection =
                  IF res.bool THEN "true" ELSE "false"]
    IN  CASE at = "hasCollection" ->
                 IF Propagates(at, res) THEN FinishCall(W, t, res)
                 ELSE IF CollectionAbsent(res)
                      THEN FinishCall(W1, t, Returned(FALSE, <<>>))
                 ELSE IF context.hybridMode
                      THEN StartStoreOp([W1 EXCEPT !.task[t].at = "query"],
                                        t, "query", c, <<>>)
                      ELSE CallEmbed(W1, t)
          [] at = "query" -> CallEmbed(W, t)
          [] OTHER ->
                 IF Propagates(at, res) THEN FinishCall(W, t, res)
                 ELSE FinishCall(W, t, ToSemanticResults(res.list))

\* variant: the threshold is kept back
SearchOptionsWithoutThreshold(op, topK, threshold, filterExpr) ==
    [NoOptions EXCEPT !.filterExpr = filterExpr, !.topK = topK]

\* the options semanticSearch passes: { topK, threshold, filterExpr } to
\* search, { rerank, limit, filterExpr } to hybridSearch
SearchOptions(op, topK, threshold, filterExpr) ==
    IF op = "search"
    THEN [NoOptions EXCEPT !.topK = topK, !.threshold = threshold,
                           !.filterExpr = filterExpr]
    ELSE [NoOptions EXCEPT
             !.rerank = Some([strategy |-> "rrf", params |-> [k |-> 100]]),
             !.limit = topK, !.filterExpr = filterExpr]

\* what semanticSearch hands to the store beside the options: queryEmbedding
\* .vector to search, the two searchRequests to hybridSearch
SearchData(op, query, vector, topK) ==
    IF op = "search" THEN <<[anns_field |-> "vector", data |-> vector]>>
    ELSE <<[anns_field |-> "vector", data |-> vector, limit |-> topK],
           [anns_field |-> "sparse_vector", data |-> query, limit |-> topK]>>

\* variant: the plain search is used in both modes
SearchCallAlwaysPlain(hybridMode) == "search"

\* if (this.hybridMode) ... hybridSearch(...) else ... search(...)
SearchCall(hybridMode) == IF hybridMode THEN "hybridSearch" ELSE "search"

\* semanticSearch resumes after embed
AfterEmbed(W, t, res) ==
    LET c == getCollectionName(context.name, context.hybridMode)
        op == SearchCall(context.hybridMode)
        W1 == [W EXCEPT !.task[t].at = op,
                        !.task[t].options =
                            SearchOptions(op, W.task[t].topK,
                                          W.task[t].threshold,
                                          W.task[t].filterExpr)]
    IN  IF Propagates("embed", res) THEN FinishCall(W, t, res)
        ELSE StartStoreOp(W1, t, op, c,
                          SearchData(op, W.task[t].query,
                                     res.list[1].vector, W.task[t].topK[1]))

\* the operation of task t is over: its locals are gone; a failure inside
\* semanticSearch is noted (which collaborator call raised, and what)
OpEnds(W, t, res) ==
    LET W1 == [W EXCEPT !.task[t].op = "none", !.task[t].wait = "none",
                        !.task[t].coll = "none", !.task[t].docs = <<>>,
                        !.task[t].loadState = "none",
                        !.task[t].reqModel = "none",
                        !.task[t].fieldName = "none",
                        !.task[t].options = NoOptions,
                        !.task[t].payload = NoPayload,
                        !.task[t].authorization = Undefined]
    IN  IF res.kind = "throw" /\ W.task[t].at # "none"
        THEN [W1 EXCEPT !.task[t].failed = @ \cup {W.task[t].at},
                        !.task[t].raised = res.error]
        ELSE W1

\* a collaborator call of task t ends with res: the awaiting caller resumes
StoreOpEnds(W, t, res) ==
    LET W1 == OpEnds(W, t, res)
    IN  IF W.task[t].call = "semanticSearch" THEN AfterStoreOp(W1, t, res)
        ELSE FinishCall(W1, t, res)

ProviderOpEnds(W, t, res) ==
    LET W1 == OpEnds(W, t, res)
    IN  IF W.task[t].call = "semanticSearch" THEN AfterEmbed(W1, t, res)
        ELSE FinishCall(W1, t, res)

(*********************** answers to requests ******************************)
\* ensureLoaded resumes with the answer to get_load_state
OnGetLoadState(W, t, resp) ==
    LET c == W.task[t].coll
        out == makeRequestOutcome(resp)
        loadState == IF resp.hasData THEN W.remote.loadState[c]
                     ELSE "undefined"
        W1 == [W EXCEPT !.task[t].loadState = loadState,
                        !.hist.ens[c].clean = @ /\ resp.hasData]
    IN  IF out.threw
        THEN StoreOpEnds(EnsureLoadedThrows(W, t), t, Thrown(out.error))
        ELSE IF NeedsLoad(loadState) THEN loadCollection(W1, t, c)
             ELSE SendEntityRequest(W1, t)

\* loadCollection and ensureLoaded resume with the answer to load
OnLoad(W, t, resp) ==
    LET c == W.task[t].coll
        out == makeRequestOutcome(resp)
        W1 == [W EXCEPT !.remote =
                  StoreEffect(@, "collections/load", c, <<>>)]
    IN  IF out.threw
        THEN StoreOpEnds(EnsureLoadedThrows(W, t), t, Thrown(out.error))
        ELSE IF W.task[t].op \in CreateOps
             THEN StoreOpEnds(W1, t, Returned(FALSE, <<>>))
             ELSE SendEntityRequest(W1, t)

\* the operation resumes with the answer to its own request
OnEntity(W, t, resp) ==
    LET c == W.task[t].coll
        op == W.task[t].op
        out == makeRequestOutcome(resp)
        W1 == [W EXCEPT !.remote =
                  StoreEffect(@, W.task[t].wait, c, W.task[t].docs),
                        !.task[t].served =
                  IF op \in {"search", "hybridSearch"} /\ resp.hasData
                     /\ CodeRecheck(op, resp) = ""
                  THEN W.remote.rows[c] ELSE <<>>]
    IN  IF out.threw THEN StoreOpEnds(W, t, Thrown(out.error))
        ELSE StoreOpEnds(W1, t, StoreOpResult(W.remote, op, c, resp))

\* variant: a failed probe marks the dimension as detected
ProbeFailedPoisons(W, t, error) ==
    ProviderOpEnds([W EXCEPT !.hist.probeFailed = TRUE,
                             !.provider.dimensionDetected = TRUE],
                   t, Thrown(error))

\* detectDimension throws: the awaiting embed / embedBatch / setModel has
\* assigned nothing yet and rethrows
ProbeFailed(W, t, error) ==
    ProviderOpEnds([W EXCEPT !.hist.probeFailed = TRUE], t, Thrown(error))

\* detectDimension resumes with the answer to its test embedding, and with it
\* the embed / embedBatch / setModel that awaits it
OnProbe(W, t, ans) ==
    LET P == W.provider
        tk == W.task[t]
        dim == RemoteDimension(P, tk.reqModel)
        W1 == [W EXCEPT !.provider = StoreProbedDimension(P, dim, tk.reqModel)]
    IN  IF ans.kind # "ok"
        THEN ProbeFailed(W, t, ProbeError(P, tk.reqModel, ans))
        ELSE CASE tk.op = "detectDimension" ->
                      ProviderOpEnds(W, t, ReturnedNum(dim))
               [] tk.op = "setModel" ->
                      ProviderOpEnds(W1, t, Returned(FALSE, <<>>))
               [] OTHER ->
                      sendEmbeddings(
                          [W1 EXCEPT !.hist.okEmbedProbes = @ + 1], t,
                          IF P.kind = "Ollama" THEN P.model ELSE tk.reqModel)

\* embed / embedBatch resume with the answer to the embedding request
OnEmbeddings(W, t, ans) ==
    LET P == W.provider
        tk == W.task[t]
        n == RemoteDimension(P, tk.reqModel)
        W1 == IF P.kind = "OpenAI"
              THEN [W EXCEPT !.provider.dimension = n,
                             !.provider.measuredFor = tk.reqModel]
              ELSE W
    IN  IF ans.kind # "ok"
        THEN ProviderOpEnds(W, t, Thrown(EmbedError(P, tk.op, ans)))
        ELSE ProviderOpEnds(W1, t,
                 Returned(FALSE,
                     Embeddings(W1.provider,
                         RemoteEmbeddings(preprocessTexts(tk.docs), n))))

(************************** Gemini client *********************************)
\* how the construction of the client can end: await import("@google/genai")
\* and new GoogleGenAI(...) succeed, or one of them throws
ConstructionOutcomes == {"", "Cannot find module @google/genai"}

\* the promise of the construction settles
Settled(P, error) ==
    IF error = ""
    THEN [state |-> "fulfilled", client |-> P.constructions, error |-> ""]
    ELSE [state |-> "rejected", client |-> 0, error |-> error]

\* GeminiEmbedding.getClient up to its await
getClient(W, t) ==
    awaitClient([W EXCEPT !.task[t].op = "getClient",
                          !.task[t].called = Append(@, "getClient")], t)

\* variant: a failed construction is forgotten, so that the next call
\* builds the client again
OnClientForgetsFailure(W, t) ==
    LET cp == W.provider.clientPromise
        tk == W.task[t]
        W0 == [W EXCEPT !.provider.clientPromise = NoClient]
        W1 == [W EXCEPT !.task[t].client = Some(cp.client)]
    IN  IF cp.state = "rejected"
        THEN ProviderOpEnds(W0, t,
                 Thrown(IF tk.op = "getClient" THEN cp.error
                        ELSE EmbedError(W.provider, tk.op,
                                 [kind |-> "reject", message |-> cp.error])))
        ELSE IF tk.op = "getClient"
             THEN ProviderOpEnds(W1, t, ReturnedNum(cp.client))
             ELSE sendEmbeddings(W1, t, tk.reqModel)

\* embed / embedBatch / getClient resume once the promise of the client has
\* settled: with the client, or with the error of its construction
OnClient(W, t) ==
    LET cp == W.provider.clientPromise
        tk == W.task[t]
        W1 == [W EXCEPT !.task[t].client = Some(cp.client)]
    IN  IF cp.state = "rejected"
        THEN ProviderOpEnds(W, t,
                 Thrown(IF tk.op = "getClient" THEN cp.error
                        ELSE EmbedError(W.provider, tk.op,
                                 [kind |-> "reject", message |-> cp.error])))
        ELSE IF tk.op = "getClient"
             THEN ProviderOpEnds(W1, t, ReturnedNum(cp.client))
             ELSE sendEmbeddings(W1, t, tk.reqModel)

(******************** collection management *******************************)
\* the constant thrown when the store is at its collection limit (its text
\* is defined outside the files at hand; only its identity matters here)
COLLECTION_LIMIT_MESSAGE == "<COLLECTION_LIMIT_MESSAGE>"

\* an error text as the chunks a pattern is matched against
Chunks(text) ==
    CASE text = LimitText ->
             <<"exceeded", "the", "limit", "number", "of", "collections",
               "[limit=2]">>
      [] text = LimitTextCapitalised ->
             <<"Exceeded", "the", "limit", "number", "of", "Collections">>
      [] text = QuotaText ->
             <<"number", "of", "collections", "is", "limited">>
      [] text = "" -> <<>>
      [] OTHER -> <<text>>

toLowerCase(chunk) ==
    CASE chunk = "Exceeded" -> "exceeded"
      [] chunk = "Collections" -> "collections"
      [] chunk \in {"FALSE", "False"} -> "false"
      [] chunk = "TRUE" -> "true"
      [] OTHER -> chunk

\* String(error) of the error makeRequest threw
StringOfError(resp) ==
    <<"Error:">> \o
    (IF resp.net = "ok"
     THEN <<"Milvus", "API", "error:">> \o
          (IF resp.message = "" THEN <<"Unknown", "error">>
           ELSE Chunks(resp.message))
     ELSE Chunks(makeRequestOutcome(resp).error))

\* pattern.test(text): the pattern occurs somewhere in the text
RegExpTest(pattern, ignoreCase, text) ==
    \E i \in 0..(Len(text) - Len(pattern)) :
        \A j \in 1..Len(pattern) :
            IF ignoreCase THEN toLowerCase(text[i + j]) = pattern[j]
            ELSE text[i + j] = pattern[j]

LimitPattern ==
    <<"exceeded", "the", "limit", "number", "of", "collections">>

\* variant: the pattern is matched with the case as written
MatchesLimitAsWritten(text) == RegExpTest(LimitPattern, FALSE, text)

\* /exceeded the limit number of collections/i.test(errorMessage)
MatchesLimit(text) == RegExpTest(LimitPattern, TRUE, text)

\* createCollection / createHybridCollection up to the await of
\* collections/create
createCollection(W, t, op, c) ==
    makeRequest([W EXCEPT !.task[t].op = op, !.task[t].coll = c], t,
                "collections/create")

\* createIndex, and the dense index of createHybridIndexes, up to the await
createIndex(W, t, fieldName) ==
    makeRequest([W EXCEPT !.task[t].fieldName = fieldName], t,
                "indexes/create")

\* createCollectionWithLimitCheck after collections/create answered, and the
\* create operation that awaits it
OnCreate(W, t, resp) ==
    LET c == W.task[t].coll
        out == makeRequestOutcome(resp)
        W1 == [W EXCEPT !.remote =
                  StoreEffect(@, "collections/create", c, <<>>)]
    IN  IF out.threw
        THEN IF MatchesLimit(StringOfError(resp))
             THEN StoreOpEnds(W, t, Thrown(COLLECTION_LIMIT_MESSAGE))
             ELSE StoreOpEnds(W, t, Thrown(out.error))
        ELSE createIndex(W1, t, "vector")

\* variant: a failed index creation drops the collection it was for
OnIndexDropsOnFailure(W, t, resp) ==
    LET c == W.task[t].coll
        out == makeRequestOutcome(resp)
        W1 == [W EXCEPT !.remote =
                  StoreEffect(@, "indexes/create", c,
                              <<IndexParams(W.task[t].fieldName)>>)]
    IN  IF out.threw THEN makeRequest(W, t, "collections/drop")
        ELSE IF W.task[t].op = "createHybridCollection"
                /\ W.task[t].fieldName = "vector"
             THEN createIndex(W1, t, "sparse_vector")
             ELSE loadCollection(W1, t, c)

\* createIndex / createHybridIndexes after indexes/create answered
OnIndex(W, t, resp) ==
    LET c == W.task[t].coll
        out == makeRequestOutcome(resp)
        W1 == [W EXCEPT !.remote =
                  StoreEffect(@, "indexes/create", c,
                              <<IndexParams(W.task[t].fieldName)>>)]
    IN  IF out.threw THEN StoreOpEnds(W, t, Thrown(out.error))
        ELSE IF W.task[t].op = "createHybridCollection"
                /\ W.task[t].fieldName = "vector"
             THEN createIndex(W1, t, "sparse_vector")
             ELSE loadCollection(W1, t, c)

\* dropCollection up to its await
dropCollection(W, t, c) ==
    makeRequest([W EXCEPT !.task[t].op = "dropCollection",
                          !.task[t].coll = c], t, "collections/drop")

OnDrop(W, t, resp) ==
    LET c == W.task[t].coll
        out == makeRequestOutcome(resp)
        W1 == [W EXCEPT !.remote =
                  StoreEffect(@, "collections/drop", c, <<>>)]
    IN  IF out.threw THEN StoreOpEnds(W, t, Thrown(out.error))
        ELSE StoreOpEnds(W1, t, Returned(FALSE, <<>>))

\* listCollections up to its await
listCollections(W, t) ==
    makeRequest([W EXCEPT !.task[t].op = "listCollections"], t,
                "collections/list")

\* the names in the answer of collections/list
ListedNames(R) ==
    SelectSeq(<<getCollectionName("proj", FALSE),
                getCollectionName("proj", TRUE)>>,
              LAMBDA c : R.exists[c])

OnList(W, t, resp) ==
    LET out == makeRequestOutcome(resp)
    IN  IF out.threw THEN StoreOpEnds(W, t, Thrown(out.error))
        ELSE StoreOpEnds(W, t,
                 Returned(FALSE, IF resp.hasData THEN ListedNames(W.remote)
                                 ELSE <<>>))

\* hasIndex up to its await: hasCollection is called
hasIndex(W, t) ==
    LET c == getCollectionName(context.name, context.hybridMode)
    IN  StartStoreOp([W EXCEPT !.task[t].at = "hasCollection"], t,
                     "hasCollection", c, <<>>)

(************************ provider calls **********************************)
\* setModel up to its first await (or to its end when nothing is awaited)
setModel(W, t, m) ==
    LET P == W.provider
        table == SupportedDimension(P.kind, m)
        W0 == [W EXCEPT !.task[t].op = "setModel", !.hist.modelChanged = TRUE]
        ended(P1) == ProviderOpEnds([W0 EXCEPT !.provider = P1], t,
                                    Returned(FALSE, <<>>))
    IN  CASE P.kind = "Ollama" ->
                 LET P1 == [P EXCEPT !.model = m, !.dimensionDetected = FALSE]
                 IN  IF P.configDimension = 0
                     THEN detectDimension([W0 EXCEPT !.provider = P1], t)
                     ELSE ended(P1)
          [] P.kind = "OpenAI" ->
                 IF table # 0
                 THEN ended([P EXCEPT !.model = m, !.dimension = table,
                                      !.measuredFor = "none"])
                 ELSE detectDimension(
                          [W0 EXCEPT !.provider = [P EXCEPT !.model = m]], t)
          [] P.kind = "VoyageAI" ->
                 ended([P EXCEPT !.model = m,
                                 !.dimension = IF table # 0 THEN table
                                               ELSE VoyageDefaultDimension])
          [] P.kind = "Gemini" ->
                 ended([P EXCEPT !.model = m,
                                 !.dimension = IF table # 0 THEN table
                                               ELSE GeminiDefaultDimension])

\* a public detectDimension() call
detectDimensionCall(W, t) ==
    LET P == W.provider
        probes == P.kind = "Ollama" \/
                  (P.kind = "OpenAI" /\ SupportedDimension(P.kind, P.model) = 0)
        W0 == [W EXCEPT !.task[t].op = "detectDimension",
                        !.hist.detectCalls = @ + 1,
                        !.hist.detectProbes = @ + (IF probes THEN 1 ELSE 0)]
    IN  IF probes THEN detectDimension(W0, t)
        ELSE ProviderOpEnds(W0, t,
                 ReturnedNum(IF P.kind = "OpenAI"
                             THEN SupportedDimension(P.kind, P.model)
                             ELSE P.dimension))

ProviderOps == {"embed", "embedBatch", "setModel", "detectDimension"}
Texts == {<<"auth">>, <<"auth", "login">>, <<"oversized", "auth">>}

\* a provider call by a task
StartProviderOp(W, t, op, texts, m) ==
    LET W0 == [W EXCEPT !.hist.overlapP = @ \/
                  (\E u \in Tasks \ {t} : W.task[u].op # "none")]
    IN  CASE op \in {"embed", "embedBatch"} -> embedStart(W0, t, op, texts)
          [] op = "setModel" -> setModel(W0, t, m)
          [] op = "detectDimension" -> detectDimensionCall(W0, t)

(****************************** actions ***********************************)
Running(tk) == tk.call # "none" /\ tk.result.kind = "none"
Finished(tk) == tk.call # "none" /\ tk.result.kind # "none"

\* a new invocation takes the first free slot
Idle(t) ==
    /\ ~Running(task[t])
    /\ \A u \in Tasks : u < t => Running(task[u])
    /\ hist.calls < MaxCalls

NewDoc == [id |-> "d", content |-> "class D", metadata |-> Python,
           relativePath |-> "src/d.py", startLine |-> 4, endLine |-> 6]

\* the embedding of a query, as callers of the VectorStore hold it
QueryVector == [len |-> OpenAIDefaultDimension, text |-> "auth"]

\* the arguments a VectorStore operation is called with
StoreArgs(op) ==
    CASE op \in {"insert", "insertHybrid"} -> {<<NewDoc>>}
      [] op = "delete" -> {<<[id |-> "a"]>>}
      [] op \in {"search", "hybridSearch"} ->
             {SearchData(op, "auth", QueryVector, 10)}
      [] OTHER -> {<<>>}

\* a caller invokes a VectorStore operation
CallStore(t) ==
    /\ Idle(t)
    /\ \E op \in LoadedOps \cup {"hasCollection"}, c \in Collections :
         \E docs \in StoreArgs(op) :
            Commit(StartStoreOp(Begin(World, t, op), t, op, c, docs))

\* a caller indexes a document with some metadata, or searches
CallInsertOrSearch(t) ==
    /\ Idle(t)
    /\ \E op \in {"insert", "insertHybrid", "search", "hybridSearch"},
          c \in Collections :
         \E docs \in (IF op \in {"insert", "insertHybrid"}
                      THEN { <<[NewDoc EXCEPT !.metadata = m]>> :
                                m \in MetadataMaps }
                      ELSE StoreArgs(op)) :
            Commit(StartStoreOp(Begin(World, t, op), t, op, c, docs))

GetLoadStateResponse(t) ==
    /\ task[t].wait = "collections/get_load_state"
    /\ \E resp \in Answers(remote, task[t].wait, task[t].coll) :
          Commit(OnGetLoadState(Received(World, t, resp), t, resp))

LoadResponse(t) ==
    /\ task[t].wait = "collections/load"
    /\ \E resp \in Answers(remote, task[t].wait, task[t].coll) :
          Commit(OnLoad(Received(World, t, resp), t, resp))

EntityResponse(t) ==
    /\ task[t].wait \in {"collections/has", "entities/insert",
                         "entities/search", "entities/hybrid_search",
                         "entities/query", "entities/delete"}
    /\ \E resp \in Answers(remote, task[t].wait, task[t].coll) :
          Commit(OnEntity(Received(World, t, resp), t, resp))

\* a caller invokes the embedding provider
CallProvider(t) ==
    /\ Idle(t)
    /\ \E op \in ProviderOps :
         \E texts \in (IF op = "embedBatch" THEN Texts ELSE {<<"auth">>}),
            m \in (IF op = "setModel" THEN Models(provider.kind)
                   ELSE {provider.model}) :
               Commit(StartProviderOp(Begin(World, t, op), t, op, texts, m))

ProbeResponse(t) ==
    /\ task[t].wait = "probe"
    /\ \E ans \in EmbedAnswers : Commit(OnProbe(World, t, ans))

EmbeddingsResponse(t) ==
    /\ task[t].wait = "embeddings"
    /\ \E ans \in EmbedAnswers : Commit(OnEmbeddings(World, t, ans))

\* the construction of the Gemini client ends
ClientSettles ==
    /\ provider.clientPromise.state = "pending"
    /\ \E error \in ConstructionOutcomes :
          Commit([World EXCEPT !.provider.clientPromise =
                                   Settled(provider, error)])

\* a call that awaits the client resumes
ClientResponse(t) ==
    /\ task[t].wait = "client"
    /\ provider.clientPromise.state \in {"fulfilled", "rejected"}
    /\ Commit(OnClient(World, t))

\* a caller invokes embed, embedBatch or getClient of the Gemini provider
CallGemini(t) ==
    /\ Idle(t)
    /\ \/ \E op \in {"embed", "embedBatch"} :
            \E texts \in (IF op = "embedBatch" THEN Texts
                          ELSE {<<"auth">>}) :
               Commit(StartProviderOp(Begin(World, t, op), t, op, texts,
                                      provider.model))
       \/ Commit(getClient(Begin(World, t, "getClient"), t))

\* threshold: number = 0.5, in thousandths
DefaultThreshold == 500

\* topK: number = 5
DefaultTopK == 5

CallSemanticSearch(t) ==
    /\ Idle(t)
    /\ Commit(semanticSearch(Begin(World, t, "semanticSearch"), t, "auth",
                              DefaultTopK, DefaultThreshold, Undefined))

\* the threshold and filterExpr arguments callers pass
SearchArguments ==
    { [threshold |-> DefaultThreshold, filterExpr |-> Undefined],
      [threshold |-> 900, filterExpr |-> Some(" language == 'python' ")],
      [threshold |-> 900, filterExpr |-> Some("  ")],
      [threshold |-> DefaultThreshold, filterExpr |-> Some("")] }

\* a caller invokes semanticSearch(query, topK, threshold, filterExpr)
CallSemanticSearchWith(t) ==
    /\ Idle(t)
    /\ \E a \in SearchArguments :
          Commit(semanticSearch(Begin(World, t, "semanticSearch"), t, "auth",
                                DefaultTopK, a.threshold, a.filterExpr))

CallHasIndex(t) ==
    /\ Idle(t)
    /\ Commit(hasIndex(Begin(World, t, "hasIndex"), t))

\* a caller invokes a collection-management operation
CallAdmin(t) ==
    /\ Idle(t)
    /\ \/ \E op \in CreateOps, c \in Collections :
             Commit(createCollection(Begin(World, t, op), t, op, c))
       \/ \E c \in Collections :
             Commit(dropCollection(Begin(World, t, "dropCollection"), t, c))
       \/ Commit(listCollections(Begin(World, t, "listCollections"), t))

CreateResponse(t) ==
    /\ task[t].wait = "collections/create"
    /\ \E resp \in Answers(remote, task[t].wait, task[t].coll) :
          Commit(OnCreate(Received(World, t, resp), t, resp))

IndexResponse(t) ==
    /\ task[t].wait = "indexes/create"
    /\ \E resp \in Answers(remote, task[t].wait, task[t].coll) :
          Commit(OnIndex(Received(World, t, resp), t, resp))

DropResponse(t) ==
    /\ task[t].wait = "collections/drop"
    /\ \E resp \in Answers(remote, task[t].wait, task[t].coll) :
          Commit(OnDrop(Received(World, t, resp), t, resp))

ListResponse(t) ==
    /\ task[t].wait = "collections/list"
    /\ \E resp \in Answers(remote, task[t].wait, task[t].coll) :
          Commit(OnList(Received(World, t, resp), t, resp))

\* the store never answers a request: the promise of fetch stays pending,
\* and makeRequest sets no timer and passes no abort signal that would
\* settle it
RequestUnanswered(t) ==
    /\ task[t].wait \notin {"none", "probe", "embeddings", "unanswered"}
    /\ task' = [task EXCEPT ![t].wait = "unanswered"]
    /\ UNCHANGED <<context, remote, provider, hist>>

\* the continuation of task t after the answer it awaits
Respond(t) ==
    \/ GetLoadStateResponse(t)
    \/ LoadResponse(t)
    \/ EntityResponse(t)
    \/ ProbeResponse(t)
    \/ EmbeddingsResponse(t)

(*************************** specifications *******************************)
\* a collection is absent, or was created and filled by the indexer
RemoteStates ==
    { R \in [exists : [Collections -> BOOLEAN],
             loadState : [Collections ->
                             {"LoadStateNotLoad", "LoadStateLoaded"}],
             rows : [Collections -> RowCatalogue \cup {<<>>}],
             indexes : [Collections ->
                           {{}} \cup {IndexesOf(c) : c \in Collections}]] :
        \A c \in Collections :
            IF R.exists[c]
            THEN R.rows[c] \in RowCatalogue /\ R.indexes[c] = IndexesOf(c)
            ELSE /\ R.loadState[c] = "LoadStateNotLoad" /\ R.rows[c] = <<>>
                 /\ R.indexes[c] = {} }

NewHist(R) ==
    [ens |-> [c \in Collections |->
                [initial |-> R.loadState[c], started |-> 0,
                 overlap |-> FALSE, loads |-> 0, clean |-> TRUE]],
     calls |-> 0, probes |-> 0, okEmbedProbes |-> 0, overlapP |-> FALSE,
     modelChanged |-> FALSE, probeFailed |-> FALSE, detectCalls |-> 0,
     detectProbes |-> 0]

Providers ==
    { NewProvider(k, m, d) : k \in ProviderKinds,
                             m \in UNION {Models(k2) : k2 \in ProviderKinds},
                             d \in {0, 512} } 

InitCommon ==
    /\ task = [t \in Tasks |-> IdleTask]
    /\ hist = NewHist(remote)

\* the search path: semanticSearch and hasIndex over the store and a provider
Init ==
    /\ context \in [name : ContextNames, hybridMode : BOOLEAN,
                     token : {Some("secret")}]
    /\ remote \in { R \in RemoteStates : \A c \in Collections :
            R.exists[c] =>
                c = getCollectionName(context.name, context.hybridMode) }
    /\ provider \in {NewProvider("Ollama", "nomic-embed-text", 0),
                     NewProvider("OpenAI", "text-embedding-3-small", 0)}
    /\ InitCommon

Next ==
    \E t \in Tasks :
        \/ CallSemanticSearch(t)
        \/ CallHasIndex(t)
        \/ GetLoadStateResponse(t)
        \/ LoadResponse(t)
        \/ EntityResponse(t)
        \/ ProbeResponse(t)
        \/ EmbeddingsResponse(t)

Spec == Init /\ [][Next]_vars

\* the search path called with thresholds and filter expressions, over a
\* store that has the collection
InitArguments ==
    /\ Init
    /\ remote.exists[getCollectionName(context.name, context.hybridMode)]
    /\ provider.kind = "Ollama"

NextArguments ==
    \E t \in Tasks :
        \/ CallSemanticSearchWith(t)
        \/ GetLoadStateResponse(t)
        \/ LoadResponse(t)
        \/ EntityResponse(t)
        \/ ProbeResponse(t)
        \/ EmbeddingsResponse(t)

SpecArguments == InitArguments /\ [][NextArguments]_vars

\* the search path over a store that may leave a request unanswered; an
\* answer that arrives is delivered, and the event loop then runs the
\* continuation that awaits it
NextLive ==
    \E t \in Tasks :
        \/ CallSemanticSearch(t)
        \/ CallHasIndex(t)
        \/ Respond(t)
        \/ RequestUnanswered(t)

SpecLive ==
    Init /\ [][NextLive]_vars /\ \A t \in Tasks : WF_vars(Respond(t))

\* the same with a store that answers every request
NextAnswered ==
    \E t \in Tasks :
        \/ CallSemanticSearch(t)
        \/ CallHasIndex(t)
        \/ Respond(t)

SpecAnswered ==
    Init /\ [][NextAnswered]_vars /\ \A t \in Tasks : WF_vars(Respond(t))

\* the values of config.hybridMode and of the environment variable
\* HYBRID_MODE (Undefined: not given, not set)
ConfigHybridModes == {Undefined, Some(TRUE), Some(FALSE)}
EnvValues == {Undefined, Some("false"), Some("FALSE"), Some("TRUE")}

\* variant: the environment variable is compared as written
ResolveHybridModeAsWritten(configHybridMode, envValue) ==
    IF configHybridMode # Undefined THEN configHybridMode[1]
    ELSE ~(envValue # Undefined /\ envValue[1] = "false")

\* config.hybridMode ??
\*   (Deno.env.get("HYBRID_MODE")?.toLowerCase() === "false" ? false : true)
ResolveHybridMode(configHybridMode, envValue) ==
    IF configHybridMode # Undefined THEN configHybridMode[1]
    ELSE ~(envValue # Undefined /\ toLowerCase(envValue[1]) = "false")

\* new SearchContext(config) in an environment env: the instance keeps
\* the resolved flag; config and constructedIn remember its inputs, env is
\* the environment as it is now
NewSearchContext(name, configHybridMode, env) ==
    [name |-> name,
     hybridMode |-> ResolveHybridMode(configHybridMode, env),
     token |-> Some("secret"),
     config |-> configHybridMode, constructedIn |-> env, env |-> env]

\* the process changes HYBRID_MODE after the SearchContext was constructed
SetEnv(value) ==
    /\ context.env # value
    /\ context' = [context EXCEPT !.env = value]
    /\ UNCHANGED <<remote, provider, task, hist>>

\* isHybridMode() is called
CallIsHybridMode(t) ==
    /\ Idle(t)
    /\ Commit(FinishCall(Begin(World, t, "isHybridMode"), t,
                         Returned(context.hybridMode, <<>>)))

InitConfigured ==
    /\ context \in { NewSearchContext(n, c, e) :
                        n \in ContextNames, c \in ConfigHybridModes,
                        e \in EnvValues }
    /\ remote \in { R \in RemoteStates :
                       /\ \A c \in Collections : R.exists[c] =>
                             c = getCollectionName(context.name,
                                                   context.hybridMode)
                       /\ \A c \in Collections : R.exists[c] =>
                             R.rows[c] = <<GoodRow, BareRow>> }
    /\ provider = NewProvider("OpenAI", "text-embedding-3-small", 0)
    /\ InitCommon

NextConfigured ==
    \/ \E value \in EnvValues : SetEnv(value)
    \/ \E t \in Tasks :
          \/ CallIsHybridMode(t)
          \/ CallHasIndex(t)
          \/ EntityResponse(t)

SpecConfigured == InitConfigured /\ [][NextConfigured]_vars

\* the worlds task t can be in once the request it waits on is answered
Responses(W, t) ==
    LET tk == W.task[t] IN
    CASE tk.wait = "collections/get_load_state" ->
             { OnGetLoadState(Received(W, t, resp), t, resp) :
                 resp \in Answers(W.remote, tk.wait, tk.coll) }
      [] tk.wait = "collections/load" ->
             { OnLoad(Received(W, t, resp), t, resp) :
                 resp \in Answers(W.remote, tk.wait, tk.coll) }
      [] tk.wait = "probe" -> { OnProbe(W, t, ans) : ans \in EmbedAnswers }
      [] tk.wait = "embeddings" ->
             { OnEmbeddings(W, t, ans) : ans \in EmbedAnswers }
      [] OTHER ->
             { OnEntity(Received(W, t, resp), t, resp) :
                 resp \in Answers(W.remote, tk.wait, tk.coll) }

\* the results the call of task t can end with when only t takes steps
RECURSIVE RunAlone(_, _)
RunAlone(Ws, t) ==
    LET running == { W \in Ws : W.task[t].wait # "none" }
        done == { W.task[t].result : W \in Ws \ running }
    IN  IF running = {} THEN done
        ELSE done \cup RunAlone(UNION { Responses(W, t) : W \in running }, t)

\* the context as constructed with provider P, over the store R as it was
\* found: no call has run yet
FreshWorld(R, P) ==
    [remote |-> R, provider |-> P, task |-> [t \in Tasks |-> IdleTask],
     hist |-> NewHist(R)]

\* the results of semanticSearch(query, topK, threshold, filterExpr) when it
\* is the only call on the freshly constructed context
AloneResults(R, P, query, topK, threshold, filterExpr) ==
    LET t == CHOOSE u \in Tasks : TRUE
    IN  RunAlone({ semanticSearch(Begin(FreshWorld(R, P), t,
                                        "semanticSearch"),
                                  t, query, topK, threshold, filterExpr) },
                 t)

Queries == {"auth", "oversized"}

\* a caller invokes semanticSearch(query)
CallSemanticSearchQuery(t) ==
    /\ Idle(t)
    /\ \E query \in Queries :
          Commit(semanticSearch(Begin(World, t, "semanticSearch"), t, query,
                                DefaultTopK, DefaultThreshold, Undefined))

\* concurrent semanticSearch calls with different queries; no call changes
\* the contents of the store. hist.alone[query] holds the results the call
\* semanticSearch(query) can end with when it runs alone.
InitConcurrent ==
    /\ context \in [name : {"proj"}, hybridMode : BOOLEAN,
                     token : {Some("secret")}]
    /\ remote \in { R \in RemoteStates :
            /\ \A c \in Collections : R.exists[c] =>
                  /\ c = getCollectionName(context.name, context.hybridMode)
                  /\ R.rows[c] = <<GoodRow, BareRow>> }
    /\ provider = NewProvider("Ollama", "nomic-embed-text", 0)
    /\ task = [t \in Tasks |-> IdleTask]
    /\ hist = NewHist(remote) @@
              [alone |-> [query \in Queries |->
                  AloneResults(remote, provider, query, DefaultTopK,
                               DefaultThreshold, Undefined)]]

NextConcurrent ==
    \E t \in Tasks :
        \/ CallSemanticSearchQuery(t)
        \/ GetLoadStateResponse(t)
        \/ LoadResponse(t)
        \/ EntityResponse(t)
        \/ ProbeResponse(t)
        \/ EmbeddingsResponse(t)

SpecConcurrent == InitConcurrent /\ [][NextConcurrent]_vars

(************************** release script *********************************)
\* A version text is [vs, major, minor, patch, prerelease, junk]: vs leading
\* 'v' characters, then major.minor.patch, then -prerelease unless that is
\* "", then junk if the text has anything the pattern does not allow.
MaxRuns == 3

PACKAGES == {"packages/core/package.json", "packages/mcp/package.json",
             "packages/cli/package.json"}

Prereleases == {"", "alpha.1", "beta.1"}

Version(vs, major, minor, patch, prerelease, junk) ==
    [vs |-> vs, major |-> major, minor |-> minor, patch |-> patch,
     prerelease |-> prerelease, junk |-> junk]

\* the arguments the script is started with
VersionArgs ==
    { Version(vs, 0, m, p, pre, FALSE) :
        vs \in 0..1, m \in 0..1, p \in 0..1, pre \in Prereleases }
    \cup { Version(2, 0, 1, 0, "", FALSE), Version(1, 0, 1, 0, "", TRUE) }

Null == [null |-> TRUE]

\* parseSemver: one leading 'v' is removed, then the text must match
\* /^(\d+)\.(\d+)\.(\d+)(?:-([a-zA-Z0-9.-]+))?$/
parseSemver(version) ==
    LET cleanVs == IF version.vs > 0 THEN version.vs - 1 ELSE 0
    IN  IF cleanVs > 0 \/ version.junk THEN Null
        ELSE [null |-> FALSE, major |-> version.major,
              minor |-> version.minor, patch |-> version.patch,
              prerelease |-> IF version.prerelease = "" THEN Undefined
                             ELSE Some(version.prerelease)]

\* String.prototype.localeCompare on the prerelease strings of the model
localeCompare(a, b) ==
    LET rank(x) == CASE x = "alpha.1" -> 1 [] x = "beta.1" -> 2 [] OTHER -> 0
    IN  IF rank(a) < rank(b) THEN 0 - 1 ELSE IF rank(a) > rank(b) THEN 1 ELSE 0

\* compareSemver(v1, v2) for two texts that parse (it throws otherwise)
compareSemver(v1, v2) ==
    LET parsed1 == parseSemver(v1)
        parsed2 == parseSemver(v2)
    IN  IF parsed1.major # parsed2.major
        THEN (IF parsed1.major > parsed2.major THEN 1 ELSE 0 - 1)
        ELSE IF parsed1.minor # parsed2.minor
        THEN (IF parsed1.minor > parsed2.minor THEN 1 ELSE 0 - 1)
        ELSE IF parsed1.patch # parsed2.patch
        THEN (IF parsed1.patch > parsed2.patch THEN 1 ELSE 0 - 1)
        ELSE IF parsed1.prerelease # Undefined
                /\ parsed2.prerelease = Undefined THEN 0 - 1
        ELSE IF parsed1.prerelease = Undefined
                /\ parsed2.prerelease # Undefined THEN 1
        ELSE IF parsed1.prerelease # Undefined
                /\ parsed2.prerelease # Undefined
        THEN localeCompare(parsed1.prerelease[1], parsed2.prerelease[1])
        ELSE 0

\* variant: the version check lets every version through
VersionCheckNeverFails(comparison) == FALSE

\* step 4: if (comparison <= 0) the script exits
VersionCheckFails(comparison) == comparison <= 0

\* the run of the script: what it was started with, the step it ended in
\* ("done" when it ran to its end) and its exit code
Run(arg, current, step, code) ==
    [arg |-> arg, current |-> current, step |-> step, code |-> code]

\* release(): the repository and the run once the script has ended; git
\* tells which of commit, tag and push succeed
release(repo, versionArg, git) ==
    LET tagVersion == IF versionArg.vs > 0 THEN versionArg
                      ELSE [versionArg EXCEPT !.vs = 1]
        version == [tagVersion EXCEPT !.vs = @ - 1]
        versions == { repo.packages[pkg] : pkg \in PACKAGES }
        currentVersion == CHOOSE v \in versions : TRUE
        exits(step) == [repo |-> repo,
                        run |-> Run(versionArg, versions, step, 1)]
        written == [repo EXCEPT
                       !.packages = [pkg \in PACKAGES |-> version],
                       !.clean = FALSE]
        committed == [written EXCEPT !.clean = TRUE,
                                     !.commits = @ \cup {tagVersion}]
        tagged == [committed EXCEPT !.tags = @ \cup {tagVersion}]
        pushed == [tagged EXCEPT !.pushed = @ \cup {tagVersion}]
    IN  IF parseSemver(version) = Null THEN exits("semver")
        ELSE IF Cardinality(versions) > 1 THEN exits("same version")
        ELSE IF VersionCheckFails(compareSemver(version, currentVersion))
             THEN exits("higher")
        ELSE IF ~repo.clean THEN exits("clean")
        ELSE IF tagVersion \in repo.tags THEN exits("tag exists")
        ELSE IF ~git.commit
             THEN [repo |-> written,
                   run |-> Run(versionArg, versions, "commit", 1)]
        ELSE IF ~git.tag
             THEN [repo |-> committed,
                   run |-> Run(versionArg, versions, "tag", 1)]
        ELSE IF ~git.push
             THEN [repo |-> tagged,
                   run |-> Run(versionArg, versions, "push", 1)]
        ELSE [repo |-> pushed, run |-> Run(versionArg, versions, "done", 0)]

\* pnpm release <versionArg>; the repository is in `remote`, the last run
\* of the script in `hist`
RunRelease ==
    /\ hist.runs < MaxRuns
    /\ \E versionArg \in VersionArgs,
          git \in [commit : BOOLEAN, tag : BOOLEAN, push : BOOLEAN] :
          LET out == release(remote, versionArg, git)
          IN  /\ remote' = out.repo
              /\ hist' = [runs |-> hist.runs + 1, run |-> out.run]
    /\ UNCHANGED <<provider, context, task>>

\* the maintainer commits or stashes the changes of the working directory
CleanWorkingDirectory ==
    /\ ~remote.clean
    /\ remote' = [remote EXCEPT !.clean = TRUE]
    /\ UNCHANGED <<provider, context, task, hist>>

\* a checkout whose packages carry valid versions, equal or not
InitRelease ==
    /\ remote \in [packages : [PACKAGES -> {Version(0, 0, 0, 1, "", FALSE),
                                            Version(0, 0, 1, 0, "", FALSE)}],
                    clean : BOOLEAN, tags : {{}}, commits : {{}},
                    pushed : {{}}]
    /\ hist = [runs |-> 0,
               run |-> Run(Version(0, 0, 0, 0, "", FALSE), {}, "none", 0)]
    /\ provider = NewProvider("OpenAI", "text-embedding-3-small", 0)
    /\ context = [name |-> "proj", hybridMode |-> TRUE,
                  token |-> Some("secret")]
    /\ task = [t \in Tasks |-> IdleTask]

NextRelease == RunRelease \/ CleanWorkingDirectory

SpecRelease == InitRelease /\ [][NextRelease]_vars

(************************ search request bodies ****************************)
\* the topK arguments callers pass
TopKs == {0, 3, DefaultTopK}

\* a caller invokes semanticSearch(query, topK)
CallSemanticSearchTopK(t) ==
    /\ Idle(t)
    /\ \E topK \in TopKs :
          Commit(semanticSearch(Begin(World, t, "semanticSearch"), t, "auth",
                                topK, DefaultThreshold, Undefined))

\* the options callers of hybridSearch pass
HybridOptions ==
    { NoOptions,
      [NoOptions EXCEPT
          !.rerank = Some([strategy |-> "weighted", params |-> [k |-> 60]]),
          !.limit = Some(0)],
      [NoOptions EXCEPT
          !.rerank = Some([strategy |-> "rrf", params |-> [k |-> 60]]),
          !.limit = Some(7)] }

\* a caller invokes hybridSearch(collectionName, searchRequests, options)
CallHybridSearchWith(t) ==
    /\ Idle(t)
    /\ \E options \in HybridOptions, limit \in TopKs :
          LET c == getCollectionName(context.name, TRUE)
              W == [Begin(World, t, "hybridSearch") EXCEPT
                       !.task[t].options = options]
          IN  Commit(StartStoreOp(W, t, "hybridSearch", c,
                         SearchData("hybridSearch", "auth", QueryVector,
                                    limit)))

\* searches with every topK, over a store that has the collections
InitRequests ==
    /\ context \in [name : {"proj"}, hybridMode : BOOLEAN,
                     token : {Some("secret")}]
    /\ remote \in { R \in RemoteStates :
            \A c \in Collections :
                R.exists[c] /\ R.rows[c] = <<GoodRow, BareRow>> }
    /\ provider = NewProvider("OpenAI", "text-embedding-3-small", 0)
    /\ InitCommon

NextRequests ==
    \E t \in Tasks :
        \/ CallSemanticSearchTopK(t)
        \/ CallHybridSearchWith(t)
        \/ GetLoadStateResponse(t)
        \/ LoadResponse(t)
        \/ EntityResponse(t)
        \/ EmbeddingsResponse(t)

SpecRequests == InitRequests /\ [][NextRequests]_vars

\* a VectorStore whose configuration may lack the token, over a store that
\* has both collections
InitToken ==
    /\ remote = [exists |-> [c \in Collections |-> TRUE],
                 loadState |-> [c \in Collections |-> "LoadStateLoaded"],
                 rows |-> [c \in Collections |-> <<GoodRow, BareRow>>],
                 indexes |-> [c \in Collections |-> IndexesOf(c)]]
    /\ provider = NewProvider("OpenAI", "text-embedding-3-small", 0)
    /\ context \in [name : {"proj"}, hybridMode : {TRUE},
                     token : {Undefined, Some(""), Some("secret")}]
    /\ InitCommon

\* the VectorStore used directly by concurrent callers
InitStore ==
    /\ remote \in RemoteStates
    /\ provider = NewProvider("OpenAI", "text-embedding-3-small", 0)
    /\ context = [name |-> "proj", hybridMode |-> TRUE,
                  token |-> Some("secret")]
    /\ InitCommon

NextStore ==
    \E t \in Tasks :
        \/ CallStore(t)
        \/ GetLoadStateResponse(t)
        \/ LoadResponse(t)
        \/ EntityResponse(t)

SpecStore == InitStore /\ [][NextStore]_vars

SpecToken == InitToken /\ [][NextStore]_vars

\* documents indexed into freshly created collections and searched
InitFresh ==
    /\ remote \in { [exists |-> [c \in Collections |-> TRUE],
                     loadState |-> ls,
                     rows |-> [c \in Collections |-> <<>>],
                     indexes |-> [c \in Collections |-> IndexesOf(c)]] :
                    ls \in [Collections ->
                              {"LoadStateNotLoad", "LoadStateLoaded"}] }
    /\ provider = NewProvider("OpenAI", "text-embedding-3-small", 0)
    /\ context = [name |-> "proj", hybridMode |-> TRUE,
                  token |-> Some("secret")]
    /\ InitCommon

NextFresh ==
    \E t \in Tasks :
        \/ CallInsertOrSearch(t)
        \/ GetLoadStateResponse(t)
        \/ LoadResponse(t)
        \/ EntityResponse(t)

SpecFresh == InitFresh /\ [][NextFresh]_vars

\* the collection-management operations of the VectorStore
NextAdmin ==
    \E t \in Tasks :
        \/ CallAdmin(t)
        \/ CreateResponse(t)
        \/ IndexResponse(t)
        \/ LoadResponse(t)
        \/ DropResponse(t)
        \/ ListResponse(t)

SpecAdmin == InitStore /\ [][NextAdmin]_vars

\* a caller creates a collection
CallCreate(t) ==
    /\ Idle(t)
    /\ \E op \in CreateOps, c \in Collections :
          Commit(createCollection(Begin(World, t, op), t, op, c))

\* concurrent createCollection / createHybridCollection calls; nobody drops
\* a collection meanwhile
NextCreate ==
    \E t \in Tasks :
        \/ CallCreate(t)
        \/ CreateResponse(t)
        \/ IndexResponse(t)
        \/ LoadResponse(t)

SpecCreate == InitStore /\ [][NextCreate]_vars

\* collections are created while hasIndex asks for the context's collection
NextCreateThenHas ==
    \E t \in Tasks :
        \/ CallCreate(t)
        \/ CallHasIndex(t)
        \/ CreateResponse(t)
        \/ IndexResponse(t)
        \/ LoadResponse(t)
        \/ EntityResponse(t)

SpecCreateThenHas == InitStore /\ [][NextCreateThenHas]_vars

\* an embedding provider used directly by concurrent callers
InitEmbed ==
    /\ remote = [exists |-> [c \in Collections |-> FALSE],
                 loadState |-> [c \in Collections |-> "LoadStateNotLoad"],
                 rows |-> [c \in Collections |-> <<>>],
                 indexes |-> [c \in Collections |-> {}]]
    /\ provider \in { P \in Providers :
                        /\ P.model \in Models(P.kind)
                        /\ P.configDimension # 0 => P.kind = "Ollama" }
    /\ context = [name |-> "proj", hybridMode |-> TRUE,
                  token |-> Some("secret")]
    /\ InitCommon

NextEmbed ==
    \/ \E t \in Tasks :
          \/ CallProvider(t)
          \/ ProbeResponse(t)
          \/ EmbeddingsResponse(t)
          \/ ClientResponse(t)
    \/ ClientSettles

SpecEmbed == InitEmbed /\ [][NextEmbed]_vars

\* one GeminiEmbedding instance used by concurrent callers
InitGemini ==
    /\ InitEmbed
    /\ provider = NewProvider("Gemini", "gemini-embedding-001", 0)

NextGemini ==
    \/ \E t \in Tasks :
          \/ CallGemini(t)
          \/ ClientResponse(t)
          \/ EmbeddingsResponse(t)
    \/ ClientSettles

SpecGemini == InitGemini /\ [][NextGemini]_vars

(****************************** properties ********************************)
\* C1: in both modes, a semanticSearch whose hasCollection check answered
\* false has ended, returning the empty list, and has raised nothing.
C1_AbsentCollectionReturnsEmpty ==
    \A t \in Tasks :
        (task[t].call = "semanticSearch" /\ task[t].hasCollection = "false")
            => /\ Finished(task[t])
               /\ task[t].result = Returned(FALSE, <<>>)
               /\ task[t].failed = {}

C1_Witness ==
    \E t \in Tasks :
        /\ task[t].call = "semanticSearch"
        /\ task[t].hasCollection = "false"
        /\ Finished(task[t])
        /\ context.hybridMode
        /\ ~remote.exists[getCollectionName(context.name, TRUE)]

\* C2: whatever the interleaving of concurrent ensureLoaded(c) invocations on
\* a collection that starts Unloaded, at most one load request is issued
\* (no request of ensureLoaded failing, every get_load_state answer carrying
\* the state).
C2_AtMostOneLoad ==
    \A c \in Collections :
        (hist.ens[c].initial = "LoadStateNotLoad" /\ hist.ens[c].clean)
            => hist.ens[c].loads <= 1

\* C3: concurrent first-use embed / embedBatch calls on one instance share a
\* single probe: at no time are two probes of such calls in flight.
C3_OneProbeInFlight ==
    Cardinality({t \in Tasks : /\ task[t].wait = "probe"
                               /\ task[t].op \in {"embed", "embedBatch"}}) <= 1

C5_DetectDimensionMemoized ==
    (/\ ~hist.modelChanged /\ ~hist.probeFailed /\ ~hist.overlapP
     /\ hist.detectCalls <= 2)
        => /\ hist.detectProbes <= 1
           /\ IsStatic(provider) => hist.detectProbes = 0

\* C6: with the model setting unchanged, once a probe issued by embed /
\* embedBatch has succeeded, no later embed / embedBatch issues a probe.
C6_ProbeAtMostOnce ==
    \A t \in Tasks :
        (/\ task[t].wait = "probe"
         /\ task[t].op \in {"embed", "embedBatch"}
         /\ ~hist.modelChanged
         /\ ~hist.overlapP)
            => hist.okEmbedProbes = 0

\* C7: a dimension marked as detected was configured, or was measured by a
\* probe issued under the current model: a probe issued before setModel that
\* is answered after it does not repopulate the cache.
C7_NoStaleProbe ==
    provider.dimensionDetected
        => provider.measuredFor \in {"config", provider.model}

\* C8: the step in which a probe started by embed / embedBatch fails leaves
\* the provider's cache (dimension value, detected mark) as it was and ends
\* the call with the error; starting the call changes nothing in the cache
\* either; and an embed / embedBatch that starts while the dimension is
\* unresolved issues a probe.
C8_FailedProbeLeavesCache ==
    [][\A t \in Tasks :
          LET fails == /\ task[t].wait = "probe"
                       /\ task[t].op \in {"embed", "embedBatch"}
                       /\ task'[t].wait = "none"
              starts == /\ ~Running(task[t])
                        /\ Running(task'[t])
                        /\ task'[t].op \in {"embed", "embedBatch"}
              unresolved ==
                  \/ /\ provider.kind = "Ollama"
                     /\ ~provider.dimensionDetected
                     /\ provider.configDimension = 0
                  \/ /\ provider.kind = "OpenAI"
                     /\ SupportedDimension("OpenAI", provider.model) = 0
          IN  /\ fails => /\ provider' = provider
                          /\ task'[t].result.kind = "throw"
              /\ (starts /\ unresolved)
                    => /\ provider' = provider
                       /\ task'[t].wait = "probe"
                       /\ hist'.probes = hist.probes + 1]_vars

\* the first embed failed in its probe, the cache is still unresolved, and
\* the next embed is probing again
C8_Witness ==
    /\ provider.kind = "Ollama"
    /\ ~provider.dimensionDetected
    /\ provider.dimension = OllamaDefaultDimension
    /\ hist.probeFailed /\ hist.probes = 2 /\ hist.okEmbedProbes = 0
    /\ ~hist.overlapP /\ ~hist.modelChanged /\ hist.detectCalls = 0
    /\ \E t \in Tasks : /\ task[t].wait = "probe"
                        /\ task[t].op \in {"embed", "embedBatch"}

\* C9 (as amended): a failure of hasCollection, embed, search or hybridSearch
\* ends semanticSearch (and hasIndex) at once with that very error; only the
\* failure of the hybrid pre-check query is caught, and a call returns
\* successfully after no other failure.
C9_FailuresPropagateExceptPreCheck ==
    \A t \in Tasks :
        task[t].call \in {"semanticSearch", "hasIndex"}
            => /\ (task[t].failed \ {"query"} # {})
                     => /\ Finished(task[t])
                        /\ task[t].result = Thrown(task[t].raised)
               /\ (Finished(task[t]) /\ task[t].result.kind = "return")
                     => task[t].failed \subseteq {"query"}

C9_Witness ==
    \E t \in Tasks :
        /\ task[t].call = "semanticSearch"
        /\ task[t].failed = {"query", "hybridSearch"}
        /\ task[t].result = Thrown(task[t].raised)

\* C9 as the specification states it: after any collaborator failure the
\* call has ended with that error.
C9_EveryFailurePropagates ==
    \A t \in Tasks :
        (task[t].call \in {"semanticSearch", "hasIndex"}
         /\ task[t].failed # {})
            => /\ Finished(task[t])
               /\ task[t].result = Thrown(task[t].raised)

\* C10: a search or hybridSearch that was served rows, some with a metadata
\* blob that does not parse, returns one document per row, the unparsable
\* ones with an empty metadata map, and does not raise.
C10_UnparsableMetadataIsEmpty ==
    \A t \in Tasks :
        (/\ Finished(task[t])
         /\ task[t].call \in {"search", "hybridSearch"}
         /\ task[t].served # <<>>)
            => /\ task[t].result.kind = "return"
               /\ Len(task[t].result.list) = Len(task[t].served)
               /\ \A i \in 1..Len(task[t].served) :
                     ~JSONparse(OrEmptyObject(task[t].served[i].metadata)).ok
                        => task[t].result.list[i].document.metadata.map
                              = EmptyMap

\* C11: an operation that ended on an envelope with code 0 or 200 treated it
\* as success (it raises nothing but the parse failure of a metadata blob),
\* and one that ended on an envelope with another code raised an error that
\* carries the store's message.
C11_EnvelopeCodeDecides ==
    \A t \in Tasks :
        (Finished(task[t]) /\ task[t].envelope.net = "ok")
            => IF task[t].envelope.code \in {0, 200}
               THEN task[t].result.kind = "throw"
                       => task[t].result.error
                             = "SyntaxError: Unexpected end of JSON input"
               ELSE task[t].result =
                       Thrown("Milvus API error: " \o
                              (IF task[t].envelope.message = ""
                               THEN "Unknown error"
                               ELSE task[t].envelope.message))

\* C12: hasCollection, search, hybridSearch and query that ended on a success
\* envelope without the expected data have raised a failure; none returned
\* a default (false, the empty list).
C12_MalformedResponseRaises ==
    \A t \in Tasks :
        (/\ Finished(task[t])
         /\ task[t].call \in {"hasCollection", "search", "hybridSearch",
                              "query"}
         /\ task[t].envelope.net = "ok"
         /\ task[t].envelope.code \in {0, 200}
         /\ ~task[t].envelope.hasData)
            => task[t].result.kind = "throw"

\* C13: when collections/create is answered, createCollection and
\* createHybridCollection either go on to indexes/create (the store created
\* the collection), or end at once: with COLLECTION_LIMIT_MESSAGE when the
\* store's error text holds 'exceeded the limit number of collections' in
\* any letter case, and with the error of the request, message intact,
\* for every other failure. A call that ended issues no further request.
C13_CollectionLimitTranslated ==
    [][\A t \in Tasks :
          (task[t].wait = "collections/create"
              /\ task'[t] # task[t])
          => LET e == task'[t].envelope
             IN  \/ /\ task'[t].wait = "indexes/create"
                     /\ remote'.exists[task[t].coll]
                 \/ /\ Finished(task'[t])
                     /\ task'[t].wait = "none"
                     /\ remote' = remote
                     /\ makeRequestOutcome(e).threw
                     /\ IF e.net = "ok"
                           /\ e.message \in {LimitText, LimitTextCapitalised}
                        THEN task'[t].result
                                = Thrown(COLLECTION_LIMIT_MESSAGE)
                        ELSE task'[t].result
                                = Thrown(makeRequestOutcome(e).error)]_vars

\* a create call ended with COLLECTION_LIMIT_MESSAGE on the capitalised text
C13_Witness ==
    \E t \in Tasks :
        /\ Finished(task[t])
        /\ task[t].call \in CreateOps
        /\ task[t].envelope.message = LimitTextCapitalised
        /\ task[t].result = Thrown(COLLECTION_LIMIT_MESSAGE)

\* C14: every invocation that has started eventually completes (returns or
\* raises), also when the store leaves one of its requests unanswered.
C14_EveryCallCompletes ==
    \A t \in Tasks : Running(task[t]) ~> ~Running(task[t])

\* C15: every EmbeddingVector returned by embed or embedBatch reports as its
\* dimension the length of its vector.
C15_DimensionIsVectorLength ==
    \A t \in Tasks :
        (/\ Finished(task[t])
         /\ task[t].call \in {"embed", "embedBatch"}
         /\ task[t].result.kind = "return")
            => \A i \in 1..Len(task[t].result.list) :
                  task[t].result.list[i].dimension
                     = task[t].result.list[i].vector.len

C17_RequestsUseDerivedName ==
    \A t \in Tasks :
        task[t].wait \in {"collections/has", "collections/get_load_state",
                          "collections/load", "entities/search",
                          "entities/hybrid_search", "entities/query"}
            => task[t].coll =
                  (IF context.hybridMode THEN "hybrid_code_chunks_"
                   ELSE "code_chunks_") \o context.name

\* C17: a hasIndex that returned gave true exactly when the store has the
\* collection of the derived name.
C17_HasIndexIffCollectionExists ==
    \A t \in Tasks :
        (/\ Finished(task[t])
         /\ task[t].call = "hasIndex"
         /\ task[t].result.kind = "return")
            => (task[t].result.bool
                   <=> remote.exists[(IF context.hybridMode
                                      THEN "hybrid_code_chunks_"
                                      ELSE "code_chunks_") \o context.name])

\* C18: no step of semanticSearch and hasIndex changes which collections
\* exist or the documents they hold, and none puts a collections/create,
\* collections/drop, indexes/create, entities/insert or entities/delete
\* request on the wire; a load state changes only by becoming Loaded.
C18_SearchPathOnlyLoads ==
    [][/\ remote'.exists = remote.exists
       /\ remote'.rows = remote.rows
       /\ \A c \in Collections :
             remote'.loadState[c] # remote.loadState[c]
                => remote'.loadState[c] = "LoadStateLoaded"
       /\ \A t \in Tasks :
             task'[t].wait \notin {"collections/create", "collections/drop",
                                   "indexes/create", "entities/insert",
                                   "entities/delete"}]_vars

\* a semanticSearch returned results from a collection it had to load
C18_Witness ==
    \E t \in Tasks, c \in Collections :
        /\ Finished(task[t])
        /\ task[t].call = "semanticSearch"
        /\ task[t].result.kind = "return"
        /\ Len(task[t].result.list) > 0
        /\ hist.ens[c].initial # "LoadStateLoaded"
        /\ remote.loadState[c] = "LoadStateLoaded"

\* C20: a semanticSearch that returned, in either mode, gives one result for
\* each row the store served, in the order served, with the row's content,
\* relativePath, startLine, endLine and score, and with the language of the
\* row's metadata, 'unknown' when the metadata names none.
C20_ResultsMirrorStore ==
    \A t \in Tasks :
        (/\ Finished(task[t])
         /\ task[t].call = "semanticSearch"
         /\ task[t].result.kind = "return")
            => /\ Len(task[t].result.list) = Len(task[t].served)
               /\ \A i \in 1..Len(task[t].served) :
                     LET row == task[t].served[i]
                         got == task[t].result.list[i]
                         md == JSONparse(OrEmptyObject(row.metadata))
                     IN  /\ got.content = row.content
                         /\ got.relativePath = row.relativePath
                         /\ got.startLine = row.startLine
                         /\ got.endLine = row.endLine
                         /\ got.score = row.distance
                         /\ got.language =
                               IF md.ok /\ "language" \in DOMAIN md.map
                               THEN md.map["language"] ELSE "unknown"

\* a semanticSearch returned two results, one with the language of its
\* metadata and one without metadata
C20_Witness ==
    \E t \in Tasks :
        /\ Finished(task[t])
        /\ task[t].call = "semanticSearch"
        /\ task[t].result.kind = "return"
        /\ Len(task[t].result.list) = 2
        /\ task[t].result.list[1].language = "python"
        /\ task[t].result.list[2].language = "unknown"
        /\ task[t].result.list[1].score = 870

\* C21: a document inserted by insert or insertHybrid with the metadata map
\* m comes back from a search or hybridSearch that returned with metadata
\* equal to m.
C21_MetadataRoundTrips ==
    \A t \in Tasks :
        (/\ Finished(task[t])
         /\ task[t].call \in {"search", "hybridSearch"}
         /\ task[t].result.kind = "return")
            => /\ Len(task[t].result.list) = Len(task[t].served)
               /\ \A i \in 1..Len(task[t].served) :
                     "inserted" \in DOMAIN task[t].served[i]
                        => /\ ~task[t].result.list[i].document.metadata.null
                           /\ task[t].result.list[i].document.metadata.map
                                 = task[t].served[i].inserted

\* a search returned a document that was inserted with a two-key map
C21_Witness ==
    \E t \in Tasks :
        /\ Finished(task[t])
        /\ task[t].call \in {"search", "hybridSearch"}
        /\ task[t].result.kind = "return"
        /\ \E i \in 1..Len(task[t].served) :
              /\ "inserted" \in DOMAIN task[t].served[i]
              /\ task[t].served[i].inserted = PythonFunction
              /\ task[t].result.list[i].document.metadata.map
                    = PythonFunction

\* C22 (as stated): whenever semanticSearch was called with a filterExpr,
\* its search request carries exactly that string as filter: in the
\* entities/search body in plain mode, in both channel blocks of the
\* entities/hybrid_search body in hybrid mode; without filterExpr no filter
\* is sent.
C22_FilterAlwaysForwarded ==
    \A t \in Tasks :
        (/\ task[t].call = "semanticSearch"
         /\ task[t].wait \in {"entities/search", "entities/hybrid_search"})
            => IF task[t].wait = "entities/search"
               THEN /\ task[t].payload.filter = task[t].filterExpr
                    /\ task[t].payload.search = <<>>
               ELSE /\ task[t].payload.filter = Undefined
                    /\ Len(task[t].payload.search) = 2
                    /\ \A i \in 1..2 :
                          task[t].payload.search[i].filter
                             = task[t].filterExpr

\* C22 (amended): a filterExpr that holds something besides white space
\* reaches the store as filter, character for character, in the
\* entities/search body or in both channel blocks of the
\* entities/hybrid_search body; an absent, empty or blank filterExpr sends
\* no filter at all.
C22_NonBlankFilterForwarded ==
    \A t \in Tasks :
        (/\ task[t].call = "semanticSearch"
         /\ task[t].wait \in {"entities/search", "entities/hybrid_search"})
            => LET sent == IF task[t].filterExpr
                               \in {Undefined, Some(""), Some("  ")}
                           THEN Undefined ELSE task[t].filterExpr
               IN  IF task[t].wait = "entities/search"
                   THEN /\ task[t].payload.filter = sent
                        /\ task[t].payload.search = <<>>
                   ELSE /\ task[t].payload.filter = Undefined
                        /\ Len(task[t].payload.search) = 2
                        /\ \A i \in 1..2 :
                              task[t].payload.search[i].filter = sent

\* a hybrid search request is on the wire with the caller's filter, spaces
\* included, in both channel blocks
C22_Witness ==
    \E t \in Tasks :
        /\ task[t].call = "semanticSearch"
        /\ task[t].wait = "entities/hybrid_search"
        /\ task[t].filterExpr = Some(" language == 'python' ")
        /\ task[t].payload.search[1].filter = Some(" language == 'python' ")
        /\ task[t].payload.search[2].filter = Some(" language == 'python' ")

\* C23: in plain mode semanticSearch hands its threshold to
\* VectorStore.search, and a call that returned gives one result for each
\* row the store served, in the order served, whatever the threshold: rows
\* scoring below it are returned too.
C23_ThresholdForwardedNotApplied ==
    \A t \in Tasks :
        (task[t].call = "semanticSearch" /\ ~context.hybridMode)
            => /\ task[t].op = "search"
                    => task[t].options.threshold = task[t].threshold
               /\ (Finished(task[t]) /\ task[t].result.kind = "return")
                    => /\ Len(task[t].result.list) = Len(task[t].served)
                       /\ \A i \in 1..Len(task[t].served) :
                             /\ task[t].result.list[i].content
                                   = task[t].served[i].content
                             /\ task[t].result.list[i].score
                                   = task[t].served[i].distance

\* a plain semanticSearch with threshold 0.9 returned a result scoring 0.87
C23_Witness ==
    \E t \in Tasks :
        /\ Finished(task[t])
        /\ task[t].call = "semanticSearch"
        /\ ~context.hybridMode
        /\ task[t].result.kind = "return"
        /\ task[t].threshold = Some(900)
        /\ \E i \in 1..Len(task[t].result.list) :
              task[t].result.list[i].score = 870

\* C24: the hybrid flag of a SearchContext is the one resolved at its
\* construction (config.hybridMode when given; otherwise false exactly when
\* HYBRID_MODE was 'false' in any letter case, true otherwise) and stays so:
\* whatever the environment becomes later, isHybridMode() returns it and
\* every request of hasIndex names the collection derived from it.
C24_HybridModeFixedAtConstruction ==
    LET resolved ==
            IF context.config # Undefined THEN context.config[1]
            ELSE context.constructedIn
                    \notin {Some("false"), Some("FALSE")}
    IN  /\ context.hybridMode = resolved
        /\ \A t \in Tasks :
              /\ (Finished(task[t]) /\ task[t].call = "isHybridMode")
                    => task[t].result = Returned(resolved, <<>>)
              /\ task[t].wait = "collections/has"
                    => task[t].coll =
                          (IF resolved THEN "hybrid_code_chunks_"
                           ELSE "code_chunks_") \o context.name

\* the flag was resolved from HYBRID_MODE = 'FALSE', the variable was then
\* set to 'TRUE', and a later hasIndex asks for the plain collection
C24_Witness ==
    /\ context.config = Undefined
    /\ context.constructedIn = Some("FALSE")
    /\ context.env = Some("TRUE")
    /\ \E t \in Tasks : /\ task[t].call = "hasIndex"
                         /\ task[t].wait = "collections/has"
                         /\ task[t].coll = "code_chunks_proj"
    /\ \E t \in Tasks : /\ task[t].call = "isHybridMode"
                         /\ task[t].result = Returned(FALSE, <<>>)

\* C25: a VectorStore configured without a token has no request on the wire
\* and ends every operation with a configuration error; no request at all
\* goes out without the bearer Authorization header.
C25_NoRequestWithoutToken ==
    \A t \in Tasks :
        /\ task[t].wait # "none" => task[t].authorization # Undefined
        /\ context.token \in {Undefined, Some("")}
              => /\ task[t].wait = "none"
                 /\ Finished(task[t]) => task[t].result.kind = "throw"

\* Concurrent semanticSearch calls on one context do not influence each
\* other: each call embeds its own query and searches with the vector of its
\* own query, and the result a call ends with is a result the same call can
\* end with when it runs alone on the context.
C26_RequestsAreOwn ==
    \A t \in Tasks :
        LET tk == task[t]
            own == RemoteEmbeddings(preprocessTexts(<<tk.query>>),
                       RemoteDimension(provider, provider.model))[1]
        IN  tk.call = "semanticSearch" =>
              /\ tk.op = "embed" => tk.docs = <<tk.query>>
              /\ tk.op \in {"search", "hybridSearch"} =>
                    tk.docs = SearchData(tk.op, tk.query, own, tk.topK[1])

C26_ResultIsAloneResult ==
    \A t \in Tasks :
        (/\ task[t].call = "semanticSearch"
         /\ task[t].wait # "none"
         /\ task'[t].wait = "none")
        => task'[t].result \in hist.alone[task[t].query]

\* C26: concurrent semanticSearch calls are independent: in every state each
\* call's requests are its own, and every step that ends a call ends it with
\* a result the call can end with when run alone.
C26_CallsAreIndependent ==
    [](C26_RequestsAreOwn) /\ [][C26_ResultIsAloneResult]_vars

C26_Witness ==
    \E t \in Tasks, u \in Tasks :
        LET c == getCollectionName(context.name, context.hybridMode) IN
        /\ t # u
        /\ task[t].call = "semanticSearch" /\ Finished(task[t])
        /\ task[t].result.kind = "return" /\ Len(task[t].result.list) = 2
        /\ task[u].call = "semanticSearch" /\ task[u].query = "oversized"
        /\ task[u].wait \in {"entities/search", "entities/hybrid_search"}
        /\ hist.ens[c].initial = "LoadStateNotLoad"
        /\ hist.ens[c].overlap
        /\ hist.calls = 2

\* C27: a run of the release script that stops at the version check was
\* asked for a version lower than the current one; a request for the current
\* version or a higher one passes the check.
C27_RejectsOnlyLowerVersion ==
    hist.run.step = "higher" =>
        LET version == IF hist.run.arg.vs > 0
                       THEN [hist.run.arg EXCEPT !.vs = @ - 1]
                       ELSE hist.run.arg
            currentVersion == CHOOSE v \in hist.run.current : TRUE
        IN  compareSemver(version, currentVersion) < 0

\* In insert, insertHybrid, search, hybridSearch, query and delete on a
\* collection c, the entities/* request is sent only by the step in which the
\* invocation's own get_load_state answered Loaded or its own load completed
\* successfully; a get_load_state or load that fails ends the operation with
\* that failure, and no entities/* request is sent.
C28_EntityRequestAfterLoaded ==
    \A t \in Tasks :
        LET before == task[t]
            after == task'[t]
            c == before.coll
            inEnsureLoaded == before.wait \in {"collections/get_load_state",
                                               "collections/load"}
            sends == /\ after.wait \in {Endpoint(op) : op \in LoadedOps}
                     /\ after.wait # before.wait
        IN  /\ (after.op \in LoadedOps /\ sends) =>
                  /\ before.op = after.op /\ after.coll = c
                  /\ \/ /\ before.wait = "collections/get_load_state"
                        /\ after.loadState = "LoadStateLoaded"
                     \/ /\ before.wait = "collections/load"
                        /\ remote'.loadState[c] = "LoadStateLoaded"
            /\ (before.call \in LoadedOps /\ inEnsureLoaded
                    /\ after # before) =>
                  \/ sends
                  \/ /\ before.wait = "collections/get_load_state"
                     /\ after.wait = "collections/load"
                     /\ after.loadState # "LoadStateLoaded"
                  \/ /\ Finished(after)
                     /\ makeRequestOutcome(after.envelope).threw
                     /\ after.result =
                           Thrown(makeRequestOutcome(after.envelope).error)

\* C28: every step keeps the order ensureLoaded, then the entities/* request:
\* the request follows a Loaded answer or a successful load of the same
\* invocation, and a failed get_load_state or load ends the operation.
C28_EnsureLoadedFirst == [][C28_EntityRequestAfterLoaded]_vars

C28_Witness ==
    \E t \in Tasks, c \in Collections :
        /\ task[t].call = "insert" /\ task[t].coll = c
        /\ task[t].wait = "entities/insert"
        /\ task[t].loadState = "LoadStateNotLoad"
        /\ hist.ens[c].loads = 1
        /\ remote.loadState[c] = "LoadStateLoaded"

\* createCollection sends collections/create, indexes/create and
\* collections/load in that order, createHybridCollection sends
\* collections/create, the dense COSINE index, the sparse BM25 index and
\* collections/load in that order, each request only in the step in which
\* the one before it succeeded; a request that fails ends the operation with
\* an error; and when the operation returns, the collection exists, has the
\* indexes of its kind and is Loaded.
C29_CreateStep ==
    \A t \in Tasks :
        LET before == task[t]
            after == task'[t]
            c == before.coll
            hybrid == before.op = "createHybridCollection"
            dense == \E i \in remote'.indexes[c] :
                        i.fieldName = "vector" /\ i.metricType = "COSINE"
            sparse == \E i \in remote'.indexes[c] :
                         /\ i.fieldName = "sparse_vector"
                         /\ i.metricType = "BM25"
            toIndex == /\ before.wait = "collections/create"
                       /\ after.wait = "indexes/create"
                       /\ after.fieldName = "vector"
                       /\ remote'.exists[c]
            toSparse == /\ hybrid
                        /\ before.wait = "indexes/create"
                        /\ before.fieldName = "vector"
                        /\ after.wait = "indexes/create"
                        /\ after.fieldName = "sparse_vector"
                        /\ dense
            toLoad == /\ before.wait = "indexes/create"
                      /\ before.fieldName =
                            (IF hybrid THEN "sparse_vector" ELSE "vector")
                      /\ after.wait = "collections/load"
                      /\ dense /\ (hybrid => sparse)
            returns == /\ before.wait = "collections/load"
                       /\ Finished(after) /\ after.result.kind = "return"
                       /\ remote'.exists[c]
                       /\ dense /\ (hybrid => sparse)
                       /\ remote'.loadState[c] = "LoadStateLoaded"
            fails == /\ Finished(after) /\ after.result.kind = "throw"
                     /\ makeRequestOutcome(after.envelope).threw
        IN  /\ (Idle(t) /\ after.op \in CreateOps)
                  => after.wait = "collections/create"
            /\ (before.op \in CreateOps /\ after # before)
                  => \/ /\ after.op = before.op /\ after.coll = c
                        /\ toIndex \/ toSparse \/ toLoad
                     \/ returns
                     \/ fails

\* C29: every step of a create operation keeps the order create, index(es),
\* load, and a successful return leaves the collection existing, indexed
\* and Loaded.
C29_CreateThenIndexThenLoad == [][C29_CreateStep]_vars

C29_Witness ==
    \E t \in Tasks, c \in Collections :
        /\ hist.ens[c].initial = "LoadStateNotLoad"
        /\ task[t].call = "createHybridCollection" /\ Finished(task[t])
        /\ task[t].result.kind = "return"
        /\ task[t].envelope.net = "ok"
        /\ remote.exists[c] /\ remote.loadState[c] = "LoadStateLoaded"
        /\ IndexParams("sparse_vector") \in remote.indexes[c]
        /\ c = getCollectionName("proj", FALSE)

\* the calls of an invocation to hasCollection, embed, search and
\* hybridSearch, in the order it made them
C30_Called(t) ==
    SelectSeq(task[t].called,
              LAMBDA op : op \in {"hasCollection", "embed", "search",
                                   "hybridSearch"})

\* C30 as stated: a semanticSearch that found its collection has, when it
\* ends, called hasCollection, then embed once, then search once in plain
\* mode or hybridSearch once in hybrid mode, and nothing else of these.
C30_AlwaysEmbedThenSearch ==
    \A t \in Tasks :
        (/\ task[t].call = "semanticSearch" /\ Finished(task[t])
         /\ task[t].hasCollection = "true")
        => C30_Called(t) = <<"hasCollection", "embed",
                             IF context.hybridMode THEN "hybridSearch"
                             ELSE "search">>

\* C30, amended: a semanticSearch that found its collection calls
\* hasCollection, then embed once, then, unless embed failed, search once in
\* plain mode or hybridSearch once in hybrid mode; it never calls search in
\* hybrid mode nor hybridSearch in plain mode.
C30_EmbedThenSearchUnlessEmbedFails ==
    \A t \in Tasks :
        LET full == <<"hasCollection", "embed",
                      IF context.hybridMode THEN "hybridSearch"
                      ELSE "search">>
            called == C30_Called(t)
        IN  task[t].call = "semanticSearch" =>
              /\ Len(called) <= 3 /\ called = SubSeq(full, 1, Len(called))
              /\ (Finished(task[t]) /\ task[t].hasCollection = "true") =>
                    IF "embed" \in task[t].failed
                    THEN called = SubSeq(full, 1, 2)
                    ELSE called = full

C30_Witness ==
    \E t \in Tasks :
        /\ task[t].call = "semanticSearch" /\ Finished(task[t])
        /\ context.hybridMode
        /\ task[t].result.kind = "return" /\ Len(task[t].result.list) = 2
        /\ task[t].called = <<"hasCollection", "query", "embed",
                              "hybridSearch">>

\* C31: every entities/hybrid_search request carries rerank
\* {strategy "rrf", params {k: 100}}, whatever rerank the caller of
\* hybridSearch passed; the one semanticSearch produces carries exactly two
\* search blocks, first the dense one (annsField "vector", data the embedding
\* of the query), then the lexical one (annsField "sparse_vector", data the
\* raw query text).
C31_HybridRequestShape ==
    \A t \in Tasks :
        LET tk == task[t]
            own == RemoteEmbeddings(preprocessTexts(<<tk.query>>),
                       RemoteDimension(provider, provider.model))[1]
        IN  tk.wait = "entities/hybrid_search" =>
              /\ tk.payload.rerank.strategy = "rrf"
              /\ tk.payload.rerank.params.k = 100
              /\ tk.call = "semanticSearch" =>
                    /\ Len(tk.payload.search) = 2
                    /\ tk.payload.search[1].annsField = "vector"
                    /\ tk.payload.search[1].data = <<own>>
                    /\ tk.payload.search[2].annsField = "sparse_vector"
                    /\ tk.payload.search[2].data = <<tk.query>>

C31_Witness ==
    \E t \in Tasks, u \in Tasks :
        /\ task[t].call = "semanticSearch"
        /\ task[t].wait = "entities/hybrid_search"
        /\ task[u].call = "hybridSearch"
        /\ task[u].wait = "entities/hybrid_search"
        /\ task[u].options.rerank =
              Some([strategy |-> "weighted", params |-> [k |-> 60]])

\* C32: the limit sent to the store equals the topK given to semanticSearch,
\* 0 included: the limit of entities/search in plain mode, the limit of both
\* search blocks and the global limit of entities/hybrid_search in hybrid
\* mode.
C32_LimitIsTopK ==
    \A t \in Tasks :
        LET tk == task[t] IN
        (tk.call = "semanticSearch"
         /\ tk.wait \in {"entities/search", "entities/hybrid_search"}) =>
            /\ tk.payload.limit = tk.topK[1]
            /\ \A i \in 1..Len(tk.payload.search) :
                  tk.payload.search[i].limit = tk.topK[1]

\* C33: a semanticSearch whose hasCollection answered false has ended, and
\* hasCollection is the only collaborator call it made: no query, embed,
\* search or hybridSearch; when it is the only invocation so far, no
\* get_load_state, load or embedding probe was sent at all.
C33_AbsentCollectionEndsTheCall ==
    \A t \in Tasks :
        (task[t].call = "semanticSearch" /\ task[t].hasCollection = "false")
        => /\ Finished(task[t])
           /\ task[t].wait = "none"
           /\ task[t].called = <<"hasCollection">>
           /\ hist.calls = 1 =>
                 /\ hist.probes = 0
                 /\ \A c \in Collections :
                       hist.ens[c].started = 0 /\ hist.ens[c].loads = 0

C33_Witness ==
    \E t \in Tasks :
        /\ task[t].call = "semanticSearch" /\ Finished(task[t])
        /\ task[t].hasCollection = "false"
        /\ ~remote.exists[getCollectionName(context.name,
                                             context.hybridMode)]
        /\ task[t].envelope.net = "ok" /\ task[t].envelope.hasData
        /\ hist.calls = 1

\* a create operation's indexes/create or collections/load request fails:
\* the operation raises, sends nothing more, and the store keeps the
\* collection as it was
C34_FailedStep ==
    \A t \in Tasks :
        (/\ task[t].op \in CreateOps
         /\ task[t].wait \in {"indexes/create", "collections/load"}
         /\ task'[t] # task[t]
         /\ makeRequestOutcome(task'[t].envelope).threw)
        => /\ task'[t].result.kind = "throw"
           /\ task'[t].wait = "none"
           /\ remote' = remote
           /\ remote.exists[task[t].coll]

\* hasIndex returns what hasCollection found: whether the collection exists
C34_HasIndexStep ==
    \A t \in Tasks :
        (/\ task[t].call = "hasIndex" /\ task[t].wait = "collections/has"
         /\ task'[t] # task[t]
         /\ task'[t].result.kind = "return")
        => task'[t].result.bool =
              (task'[t].envelope.hasData /\ remote.exists[task[t].coll])

\* C34: when indexes/create or collections/load fails after
\* collections/create succeeded, createCollection / createHybridCollection
\* raises without sending collections/drop; the collection stays in the
\* store, with the load state and the indexes it had, and hasCollection
\* (hence hasIndex) answers true for it afterwards.
C34_FailedCreateLeavesCollection ==
    /\ [][C34_FailedStep /\ C34_HasIndexStep]_vars
    /\ [](\A t \in Tasks : task[t].wait # "collections/drop")

C34_Witness ==
    LET c == getCollectionName(context.name, context.hybridMode)
    IN  /\ remote.exists[c] /\ remote.indexes[c] = {}
        /\ remote.loadState[c] = "LoadStateNotLoad"
        /\ \E t \in Tasks :
              /\ task[t].call \in CreateOps /\ Finished(task[t])
              /\ task[t].result.kind = "throw"
        /\ \E t \in Tasks :
              /\ task[t].call = "hasIndex" /\ Finished(task[t])
              /\ task[t].result.kind = "return" /\ task[t].result.bool

\* C35: on one GeminiEmbedding instance the client is constructed exactly
\* once, at the first embed / embedBatch / getClient call and whatever the
\* interleaving of the calls, and every caller that obtained a client
\* obtained that one instance.
C35_ClientConstructedOnce ==
    /\ provider.constructions = (IF hist.calls = 0 THEN 0 ELSE 1)
    /\ (provider.clientPromise.state = "null") = (hist.calls = 0)
    /\ \A t \in Tasks :
          task[t].client # Undefined
          => /\ provider.clientPromise.state = "fulfilled"
             /\ task[t].client = Some(provider.clientPromise.client)
             /\ \A u \in Tasks :
                   task[u].client \in {Undefined, task[t].client}

C35_Witness ==
    /\ provider.constructions = 1
    /\ \A t \in Tasks : Running(task[t]) /\ task[t].client = Some(1)
    /\ \E t, u \in Tasks : task[t].call # task[u].call

\* the error a call ends with when the construction of the client failed
C36_ConstructionError(call, error) ==
    CASE call = "embed" -> "Gemini embedding failed: " \o error
      [] call = "embedBatch" -> "Gemini batch embedding failed: " \o error
      [] OTHER -> error

\* once the construction has failed, the stored promise is kept and the
\* client is not constructed again
C36_FailureKept ==
    provider.clientPromise.state = "rejected"
    => /\ provider'.clientPromise = provider.clientPromise
       /\ provider'.constructions = provider.constructions

\* C36: a failed construction of the Gemini client stays memoized: the
\* stored promise is never reset, the construction is not attempted again,
\* and every embed / embedBatch / getClient call on the instance ends with
\* the error of that construction.
C36_FailedConstructionStays ==
    /\ [][C36_FailureKept]_vars
    /\ [](provider.clientPromise.state = "rejected"
           => \A t \in Tasks :
                 Finished(task[t])
                 => task[t].result =
                       Thrown(C36_ConstructionError(task[t].call,
                                  provider.clientPromise.error)))

C36_Witness ==
    /\ provider.clientPromise.state = "rejected"
    /\ provider.constructions = 1
    /\ hist.calls = 2
    /\ task[1].call = "embed" /\ Finished(task[1])
    /\ task[1].result.kind = "throw"
    /\ task[2].call = "none"

\* the tag and the package version the script derives from its argument
C37_TagVersion(arg) == IF arg.vs > 0 THEN arg ELSE [arg EXCEPT !.vs = 1]
C37_Version(arg) == [C37_TagVersion(arg) EXCEPT !.vs = @ - 1]

\* every validation of the script passes in the repository as it is
C37_ValidationsPass(repo, arg) ==
    LET versions == { repo.packages[pkg] : pkg \in PACKAGES }
    IN  /\ parseSemver(C37_Version(arg)) # Null
        /\ Cardinality(versions) = 1
        /\ \A current \in versions :
              compareSemver(C37_Version(arg), current) > 0
        /\ repo.clean
        /\ C37_TagVersion(arg) \notin repo.tags

\* what the steps that ran have left behind
C37_Updated(repo, arg) ==
    \A pkg \in PACKAGES : repo.packages[pkg] = C37_Version(arg)

\* one run of the script
C37_RunStep ==
    hist'.runs = hist.runs + 1
    => LET arg == hist'.run.arg
           step == hist'.run.step
           tag == C37_TagVersion(arg)
           ran(steps) == step \in steps
       IN  /\ (remote' # remote) => C37_ValidationsPass(remote, arg)
           /\ ~C37_ValidationsPass(remote, arg)
                 => /\ remote' = remote /\ hist'.run.code = 1
                    /\ step \in {"semver", "same version", "higher",
                                  "clean", "tag exists"}
           /\ C37_ValidationsPass(remote, arg)
                 => /\ step \in {"commit", "tag", "push", "done"}
                    /\ (hist'.run.code = 0) = (step = "done")
                    /\ C37_Updated(remote', arg)
                    /\ remote'.commits =
                          (IF ran({"tag", "push", "done"})
                           THEN remote.commits \cup {tag}
                           ELSE remote.commits)
                    /\ remote'.clean = ran({"tag", "push", "done"})
                    /\ remote'.tags =
                          (IF ran({"push", "done"})
                           THEN remote.tags \cup {tag} ELSE remote.tags)
                    /\ remote'.pushed =
                          (IF ran({"done"})
                           THEN remote.pushed \cup {tag}
                           ELSE remote.pushed)

\* C37: the release script writes the package.json files, commits, tags and
\* pushes only when every validation passed; it then updates, commits, tags
\* and pushes in that order, stops at the first of these that fails, and
\* leaves what the earlier steps did in place.
C37_ReleaseStepsInOrder == [][C37_RunStep]_vars

\* a run failed at the tag: the files are updated and committed, nothing
\* is tagged or pushed
C37_Witness ==
    /\ hist.runs > 0 /\ hist.run.step = "tag" /\ hist.run.code = 1
    /\ C37_Updated(remote, hist.run.arg)
    /\ C37_TagVersion(hist.run.arg) \in remote.commits
    /\ C37_TagVersion(hist.run.arg) \notin remote.tags
    /\ C37_TagVersion(hist.run.arg) \notin remote.pushed

====
